---------------------------- MODULE Spec2Model ----------------------------
(***************************************************************************)
(* Model of the Zeiterfassung time tracker: the timer and its backup       *)
(* snapshot (time_tracker_app.py, config_manager.py), the local ledger     *)
(* (database_manager.py) and the login, catalog refresh, push and pull of  *)
(* the remote tracker (redmine_manager.py).                                *)
(*                                                                         *)
(* Strings are sequences of one-character strings, so that strip() and     *)
(* split(":") are computed and not assumed.  Durations are whole seconds;  *)
(* the wall clock advances in steps of TickSeconds.  Hours are counted in  *)
(* quarter hours (hours * 4).                                              *)
(*                                                                         *)
(* Spec is the program where the remote tracker cannot be reached,         *)
(* SpecOnline the program where connect() may succeed, SpecReconcile the   *)
(* same with the synchronisation from the menu, SpecPush the push of       *)
(* RedmineManager on its own, SpecSync and SpecTickets its pulls of time   *)
(* entries and of tickets, SpecConnect the login dialog and the catalog    *)
(* refresh over every sequence of answers.  SpecTimer is the timer with    *)
(* the callbacks of Tk's after queue and the close prompt, SpecCatalog the *)
(* catalog refresh over changing remote issues, SpecRound the rounding of  *)
(* durations in push and pull, SpecLedger the ledger over records, pulls,  *)
(* kills, recoveries and the reset of the program.                         *)
(* SpecCache is the ticket cache over changing remote issues, SpecSubject  *)
(* the push over the work packages the dialog can store, SpecAvg the       *)
(* average of the ledger, SpecTarget the push after the login and after a  *)
(* change of the target project, SpecDefaults the defaults of the          *)
(* configuration over refreshes, added projects and resets, SpecUrl the    *)
(* change of the tracker's address, SpecRetry the push called again for    *)
(* the same selection.                                                     *)
(***************************************************************************)
EXTENDS Integers, Sequences, FiniteSets, TLC

(***************************************************************************)
(* Bounds of the model.                                                    *)
(***************************************************************************)
MaxTime == 2
TickSeconds == 600
MaxOnlineTime == 1
MaxLedger == 2
MaxRemote == 1
MaxIssues == 2
MaxEntries == 2
MaxAnswers == 3
MaxQuarters == 4
MaxWpLen == 5

VARIABLES
    app,            \* "down" (no process) or "up" (TimeTrackerApp constructed)
    now,            \* wall clock, in ticks of TickSeconds seconds
    running,        \* TimeTrackerApp.running
    start_time,     \* TimeTrackerApp.start_time (None, or seconds)
    elapsed_time,   \* TimeTrackerApp.elapsed_time, seconds
    update_job,     \* TimeTrackerApp.update_job: a timer tick is pending
    project,        \* project_combobox.get()
    work_package,   \* work_package_combobox.get()
    redmine,        \* RedmineManager.redmine is set (connected)
    backup_project, \* RedmineManager.backup_project
    backup,         \* config["backup"], persisted in config.yaml
    ledger,         \* rows of table work_log, in insertion order
    issues,         \* remote issues
    time_entries,   \* remote time entries
    last,           \* history: the last operation and what it did
    session,        \* ghost: the timing session the timer's elapsed time belongs to
    backup_session, \* ghost: the timing session of the stored snapshot
    row_session,    \* ghost: the timing session of each ledger row
    tickets,        \* rows of table redmine_tickets, in insertion order
    config,         \* ConfigurationManager.config, the dictionary in memory
    config_file,    \* config.yaml, the dictionary last saved
    entry_session,  \* ghost: the timing session of each remote time entry
    redmine_url,    \* RedmineManager.redmine_url
    connect_returned, \* ghost: what connect() returned in this process:
                    \* "none" (not called), "true" or "false"
    after_queue,    \* the update_timer callbacks pending in Tk's after queue
    default_config, \* ConfigurationManager.DEFAULT_CONFIG in this process: the
                    \* list "projects" and the dictionary "work_packages",
                    \* where the configuration does not hold the same object
    shared,         \* the keys under which the configuration holds the very
                    \* object of DEFAULT_CONFIG (DEFAULT_CONFIG.copy() is
                    \* shallow, load_config fills in the value itself)
    file_keys       \* the keys of these that config.yaml holds; none: there
                    \* is no config.yaml

vars == << app, now, running, start_time, elapsed_time, update_job, project,
           work_package, redmine, backup_project, backup, ledger, issues,
           time_entries, last, session, backup_session, row_session, tickets,
           config, config_file, entry_session, redmine_url,
           connect_returned, after_queue,
                    default_config, shared, file_keys >>

\* Python's None where the model holds a number: no start time, no id
NoTime == -1
NoId == 0

(***************************************************************************)
(* Strings.                                                                *)
(***************************************************************************)
Range(s) == { s[i] : i \in 1..Len(s) }

RECURSIVE LStrip(_)
LStrip(s) == IF s # <<>> /\ Head(s) = " " THEN LStrip(Tail(s)) ELSE s

RECURSIVE RStrip(_)
RStrip(s) == IF s # <<>> /\ s[Len(s)] = " "
             THEN RStrip(SubSeq(s, 1, Len(s) - 1)) ELSE s

\* str.strip()
Strip(s) == RStrip(LStrip(s))

RECURSIVE SplitHead(_, _)
\* s.split(c)[0]: the part of s before the first c, all of s without one
SplitHead(s, c) ==
    IF s = <<>> \/ Head(s) = c THEN <<>>
    ELSE <<Head(s)>> \o SplitHead(Tail(s), c)

(***************************************************************************)
(* The configuration: projects and their work packages.                    *)
(***************************************************************************)
ProjA == <<"A">>
ProjB == <<"B">>
WpFix == <<"7", ":", " ", "f", " ">>

\* dict.get(key, default)
Get(dict, key, default) == IF key \in DOMAIN dict THEN dict[key] ELSE default

\* ConfigurationManager.get_projects
config_projects == config.projects

\* ConfigurationManager.get_work_packages().get(p, [])
config_work_packages(p) == Get(config.work_packages, p, << >>)

\* update_work_packages_for_project: the first work package, else ""
FirstWorkPackage(p) ==
    LET wp_list == config_work_packages(Strip(p))
    IN  IF wp_list # <<>> THEN wp_list[1] ELSE <<>>

(***************************************************************************)
(* The remote tracker's projects.                                          *)
(***************************************************************************)
TargetName == <<"Z">>
GoneName == <<"Q">>
remote_projects == << [id |-> 1, name |-> ProjA], [id |-> 2, name |-> TargetName] >>

(***************************************************************************)
(* The configuration dictionary.  << >> stands for an empty string and for *)
(* None: the code tests both with "not".                                   *)
(***************************************************************************)
UrlName == << "h" >>
UserName == << "u" >>

\* ConfigurationManager.DEFAULT_CONFIG, without "backup" (variable backup)
DEFAULT_CONFIG ==
    [projects |-> << ProjA, ProjB >>, work_packages |-> << >>,
     REDMINE_URL |-> << >>, REDMINE_BACKUP_PROJECT |-> << >>,
     REDMINE_USER |-> << >>, REDMINE_CREDENTIALS |-> << >>,
     REDMINE_CONFIG_UPDATED |-> FALSE]

\* The keys of DEFAULT_CONFIG whose values are objects that can be changed
\* in place; "backup" is only ever replaced.
ObjectKeys == { "projects", "work_packages" }

\* These values as the class is loaded
DefaultObjects ==
    [projects |-> DEFAULT_CONFIG.projects, work_packages |-> DEFAULT_CONFIG.work_packages]

\* The configuration of an installation that has been connected before: the
\* catalog was refreshed, user and backup project are known, no credentials
\* were stored.
ConfiguredConfig ==
    [DEFAULT_CONFIG EXCEPT !.work_packages = (ProjA :> << WpFix >>),
                           !.REDMINE_URL = UrlName,
                           !.REDMINE_BACKUP_PROJECT = TargetName,
                           !.REDMINE_USER = UserName,
                           !.REDMINE_CONFIG_UPDATED = TRUE]


(***************************************************************************)
(* Local ledger: table work_log.                                           *)
(***************************************************************************)
\* A table work_log whose UNIQUE constraint never rejects a row.
UniqueViolated_never(rows, row) == FALSE

\* UNIQUE(date, project, work_package, duration) of table work_log
UniqueViolated(rows, row) == \E i \in 1..Len(rows) : rows[i] = row

\* A faulty record_time_entry that replaces the ledger by the new row.
db_record_time_entry_replacing(rows, date_str, proj, wp, duration, storage_fault) ==
    LET row == [date |-> date_str, project |-> proj, work_package |-> wp,
                duration |-> duration]
    IN  IF storage_fault THEN [raised |-> TRUE, rows |-> rows]
        ELSE [raised |-> FALSE, rows |-> << row >>]

\* A faulty record_time_entry on a table without the UNIQUE constraint.
db_record_time_entry_unconstrained(rows, date_str, proj, wp, duration, storage_fault) ==
    LET row == [date |-> date_str, project |-> proj, work_package |-> wp,
                duration |-> duration]
    IN  IF storage_fault THEN [raised |-> TRUE, rows |-> rows]
        ELSE [raised |-> FALSE, rows |-> Append(rows, row)]

\* DatabaseManager.record_time_entry: INSERT and commit, or raise.
\* storage_fault: the storage fails for a reason of its own.
db_record_time_entry(rows, date_str, proj, wp, duration, storage_fault) ==
    LET row == [date |-> date_str, project |-> proj, work_package |-> wp,
                duration |-> duration]
    IN  IF storage_fault \/ UniqueViolated(rows, row)
        THEN [raised |-> TRUE, rows |-> rows]
        ELSE [raised |-> FALSE, rows |-> Append(rows, row)]

(***************************************************************************)
(* Push: RedmineManager.create_time_entry.                                 *)
(***************************************************************************)
RemoteApis == { "project.all", "issue.filter", "issue.create", "time_entry.create" }

\* n!: every number of rows the ledger holds divides Factorial(MaxLedger)
RECURSIVE Factorial(_)
Factorial(n) == IF n <= 1 THEN 1 ELSE n * Factorial(n - 1)

\* The averages are held in whole parts of a second, AvgScale parts to the
\* second, so that the quotient AVG(duration) computes is exact.
AvgScale == Factorial(MaxLedger)

RECURSIVE SumDurations(_)
\* the sum AVG() divides by the number of rows
SumDurations(rows) ==
    IF rows = <<>> THEN 0 ELSE Head(rows).duration + SumDurations(Tail(rows))

\* A faulty fetch_avg_duration_for whose SELECT leaves out project=?.
fetch_avg_duration_for_any_project(rows, proj, wp, select_fault) ==
    LET hits == SelectSeq(rows, LAMBDA r : r.work_package = wp)
    IN  IF select_fault \/ hits = <<>> THEN 0
        ELSE (SumDurations(hits) * AvgScale) \div Len(hits)

\* DatabaseManager.fetch_avg_duration_for: SELECT AVG(duration) FROM work_log
\* WHERE project=? AND work_package=?; AVG over no row is NULL, which gives
\* 0, and so does a SELECT that raises.
fetch_avg_duration_for(rows, proj, wp, select_fault) ==
    LET hits == SelectSeq(rows, LAMBDA r : r.project = proj /\ r.work_package = wp)
    IN  IF select_fault \/ hits = <<>> THEN 0
        ELSE (SumDurations(hits) * AvgScale) \div Len(hits)

CeilDiv(a, b) == (a + b - 1) \div b

Max(a, b) == IF a >= b THEN a ELSE b

\* A faulty rounding to the quarter hour below.
rounded_hours_down(duration) == Max(duration \div 900, 1)

\* max(math.ceil(raw_hours * 4) / 4.0, 0.25), in quarter hours
rounded_hours(duration) == Max(CeilDiv(duration, 900), 1)

\* work_package.split(":")[0].strip() if ":" in work_package else work_package
ticket_number(wp) ==
    IF ":" \in Range(wp) THEN Strip(SplitHead(wp, ":")) ELSE wp

\* f"{original_project} - Ticket {ticket_number}"
derived_subject(original_project, wp) ==
    original_project \o << " - Ticket " >> \o ticket_number(wp)

\* the loop over redmine.project.all(): the id of the project of that name
find_backup_project_id(name) ==
    LET hits == SelectSeq(remote_projects, LAMBDA p : p.name = name)
    IN  IF hits # <<>> THEN hits[1].id ELSE NoId

\* A faulty lookup that never finds an issue.
issue_filter_blind(iss, pid, subject) == <<>>

\* redmine.issue.filter(project_id=..., subject=...)
issue_filter(iss, pid, subject) ==
    SelectSeq(iss, LAMBDA i : i.project_id = pid /\ i.subject = subject)

\* A faulty time_entry.create that stores the entry twice.
time_entry_create_twice(ents, entry) == Append(Append(ents, entry), entry)

\* redmine.time_entry.create(issue_id=..., spent_on=..., hours=...,
\* comments=...) when it does not raise
time_entry_create(ents, entry) == Append(ents, entry)

\* The result of one call on manager rm (redmine, backup_project) and remote
\* state (issues, time_entries): the remote state after it, the value
\* returned (NoId for None, or the id of the issue), the remote calls made,
\* in order, and those of them that raised.  failing: the remote calls that
\* raise during this call.
create_time_entry(rm, original_project, wp, duration, date_str, failing) ==
    LET iss     == rm.issues
        ents    == rm.time_entries
        nothing == [issues |-> iss, time_entries |-> ents, ret |-> NoId,
                    calls |-> <<>>, failed |-> {}]
        subject == derived_subject(original_project, wp)
        hours   == rounded_hours(duration)
        pid     == find_backup_project_id(rm.backup_project)
        entry(issue_id, comments) ==
            [issue_id |-> issue_id, spent_on |-> date_str, hours |-> 15 * hours,
             comments |-> comments]
    IN
    IF ~rm.redmine THEN nothing
    ELSE IF rm.backup_project = <<>> THEN nothing
    ELSE IF "project.all" \in failing
         THEN [nothing EXCEPT !.calls = << "project.all" >>,
                              !.failed = { "project.all" }]
    ELSE IF pid = NoId
         THEN [nothing EXCEPT !.calls = << "project.all" >>]
    ELSE
    LET lookup_failed == "issue.filter" \in failing
        existing_issues == IF lookup_failed THEN <<>>
                           ELSE issue_filter(iss, pid, subject)
        c2 == << "project.all", "issue.filter" >>
        f2 == IF lookup_failed THEN { "issue.filter" } ELSE {}
    IN
    IF existing_issues # <<>>
    THEN LET issue == existing_issues[1]
         IN  IF "time_entry.create" \in failing
             THEN [issues |-> iss, time_entries |-> ents, ret |-> issue.id,
                   calls |-> Append(c2, "time_entry.create"),
                   failed |-> f2 \cup { "time_entry.create" }]
             ELSE [issues |-> iss,
                   time_entries |->
                       time_entry_create(ents, entry(issue.id,
                                                     "Zusaetzlicher Zeiteintrag")),
                   ret |-> issue.id,
                   calls |-> Append(c2, "time_entry.create"),
                   failed |-> f2]
    ELSE IF "issue.create" \in failing
         THEN [issues |-> iss, time_entries |-> ents, ret |-> NoId,
               calls |-> Append(c2, "issue.create"),
               failed |-> f2 \cup { "issue.create" }]
    ELSE
    LET issue == [id |-> Len(iss) + 1, project_id |-> pid, subject |-> subject,
                  assigned_to_me |-> FALSE]
        iss2  == Append(iss, issue)
        c3    == c2 \o << "issue.create", "time_entry.create" >>
    IN  IF "time_entry.create" \in failing
        THEN [issues |-> iss2, time_entries |-> ents, ret |-> NoId,
              calls |-> c3, failed |-> f2 \cup { "time_entry.create" }]
        ELSE [issues |-> iss2,
              time_entries |->
                  time_entry_create(ents, entry(issue.id, "Erster Zeiteintrag")),
              ret |-> issue.id, calls |-> c3, failed |-> f2]

(***************************************************************************)
(* The timer and its backup snapshot: TimeTrackerApp.  A handler is an     *)
(* operator from the state s before it (a record of the variables it may   *)
(* read or write) to the state after it; s.out tells what it did.          *)
(***************************************************************************)
\* time.time(), in seconds
Time(t) == t * TickSeconds

\* datetime.now().strftime("%Y-%m-%d"): the day, counted from the first
date_of(t) == Time(t) \div 86400

\* config["backup"] = {}: every read of it goes through .get(key, default)
\* The snapshot's timestamp is written and never read: it is left out.
EmptyBackup == [elapsed_time |-> 0, project |-> <<>>, work_package |-> <<>>]

\* What a handler did: its result, the ledger and remote calls it made, in
\* order, those of them that raised, what create_time_entry returned, and
\* the rows given to record_time_entry by a direct call.
NoOut ==
    [op |-> "", res |-> "", calls |-> <<>>, failed |-> {}, ret |-> NoId,
     args |-> <<>>]

St ==
    [running |-> running, start_time |-> start_time, elapsed_time |-> elapsed_time,
     update_job |-> update_job, project |-> project, work_package |-> work_package,
     redmine |-> redmine, backup_project |-> backup_project, backup |-> backup,
     ledger |-> ledger, issues |-> issues, time_entries |-> time_entries,
     session |-> session, backup_session |-> backup_session,
     row_session |-> row_session, tickets |-> tickets, config |-> config,
     config_file |-> config_file, entry_session |-> entry_session,
     redmine_url |-> redmine_url, connect_returned |-> connect_returned,
     after_queue |-> after_queue, default_config |-> default_config,
     shared |-> shared, file_keys |-> file_keys, out |-> NoOut]

\* ConfigurationManager.update_backup
update_backup(s, backup_data) ==
    [s EXCEPT !.backup = backup_data, !.config_file = s.config,
              !.file_keys = ObjectKeys, !.backup_session = s.session]

\* A faulty clear_backup that leaves the snapshot in place.
clear_backup_kept(s) == s

\* ConfigurationManager.clear_backup
clear_backup(s) ==
    [s EXCEPT !.backup = EmptyBackup, !.config_file = s.config,
              !.file_keys = ObjectKeys, !.backup_session = NoTime]

(***************************************************************************)
(* Pull: RedmineManager.sync_my_tickets and sync_time_entries.  A remote   *)
(* time entry holds its hours in minutes (hours * 60).                     *)
(***************************************************************************)
PullApis == { "user.get", "issue.filter", "time_entry.filter" }

\* f"{issue.id}"
IdStr(n) == << "0", "1", "2", "3", "4", "5", "6", "7", "8", "9" >>[n + 1]

\* issue.project.name
project_name(pid) ==
    LET hits == SelectSeq(remote_projects, LAMBDA p : p.id = pid)
    IN  IF hits # <<>> THEN hits[1].name ELSE <<>>

\* DatabaseManager.ticket_exists: False when the SELECT fails
ticket_exists(rows, ticket_id, select_fault) ==
    ~select_fault /\ \E i \in 1..Len(rows) : rows[i].ticket_id = ticket_id

\* DatabaseManager.insert_ticket: an error (a storage fault, or the UNIQUE
\* ticket_id) is logged and swallowed
insert_ticket(rows, ticket_data, storage_fault) ==
    IF storage_fault \/ \E i \in 1..Len(rows) : rows[i].ticket_id = ticket_data.ticket_id
    THEN rows
    ELSE Append(rows, ticket_data)

\* A faulty update_ticket that appends the new values as a second row.
update_ticket_appending(rows, ticket_data, storage_fault) ==
    IF storage_fault THEN rows ELSE Append(rows, ticket_data)

\* A faulty update_ticket whose UPDATE has no WHERE clause.
update_ticket_unkeyed(rows, ticket_data, storage_fault) ==
    IF storage_fault THEN rows
    ELSE [i \in 1..Len(rows) |->
             [ticket_data EXCEPT !.ticket_id = rows[i].ticket_id]]

\* DatabaseManager.update_ticket: UPDATE ... WHERE ticket_id = ?
update_ticket(rows, ticket_data, storage_fault) ==
    IF storage_fault THEN rows
    ELSE [i \in 1..Len(rows) |->
             IF rows[i].ticket_id = ticket_data.ticket_id THEN ticket_data
             ELSE rows[i]]

\* the loop of sync_my_tickets over the issues listed, from the i-th on
RECURSIVE sync_tickets_from(_, _, _, _, _, _)
sync_tickets_from(rows, listed, i, my_user, select_faults, write_faults) ==
    IF i > Len(listed) THEN rows
    ELSE LET issue == listed[i]
             ticket_data == [ticket_id |-> issue.id, subject |-> issue.subject,
                             project |-> project_name(issue.project_id),
                             user |-> my_user]
             next == IF ticket_exists(rows, issue.id, i \in select_faults)
                     THEN update_ticket(rows, ticket_data, i \in write_faults)
                     ELSE insert_ticket(rows, ticket_data, i \in write_faults)
         IN  sync_tickets_from(next, listed, i + 1, my_user, select_faults,
                               write_faults)

\* RedmineManager.sync_my_tickets.  failing: the remote calls that raise;
\* select_faults, write_faults: the issues listed (by their place) at which
\* the SELECT and the INSERT or UPDATE fail.
sync_my_tickets(s, failing, select_faults, write_faults) ==
    LET ask == s.config.REDMINE_USER = <<>>
        c1  == IF ask THEN << "user.get" >> ELSE <<>>
    IN
    IF ask /\ "user.get" \in failing
    THEN [s EXCEPT !.out.calls = @ \o c1, !.out.failed = @ \cup { "user.get" }]
    ELSE
    LET s1 == IF ask THEN [s EXCEPT !.config.REDMINE_USER = UserName] ELSE s
        my_user == s1.config.REDMINE_USER
        listed == SelectSeq(s1.issues, LAMBDA i : i.assigned_to_me)
    IN  IF "issue.filter" \in failing
        THEN [s1 EXCEPT !.out.calls = @ \o c1 \o << "issue.filter" >>,
                        !.out.failed = @ \cup { "issue.filter" }]
        ELSE [s1 EXCEPT !.out.calls = @ \o c1 \o << "issue.filter" >>,
                        !.tickets = sync_tickets_from(@, listed, 1, my_user,
                                                      select_faults, write_faults)]

\* DatabaseManager.time_entry_exists: False when the SELECT fails
time_entry_exists(rows, row, select_fault) ==
    ~select_fault /\ \E i \in 1..Len(rows) : rows[i] = row

\* The ledger row sync_time_entries makes of a remote time entry and the
\* issue it is booked on: rounded_hours = max(ceil(hours * 4) / 4, 0.25),
\* duration_seconds = rounded_hours * 3600.
pulled_row(entry, issue) ==
    [date |-> entry.spent_on, project |-> project_name(issue.project_id),
     work_package |-> << IdStr(issue.id), ":", " " >> \o issue.subject,
     duration |-> Max(CeilDiv(entry.hours, 15), 1) * 900]

\* the loop of sync_time_entries over the entries listed, from the i-th on;
\* an error at one entry is logged and the loop goes on
RECURSIVE sync_entries_from(_, _, _, _)
sync_entries_from(s, i, select_faults, insert_faults) ==
    IF i > Len(s.time_entries) THEN s
    ELSE LET entry == s.time_entries[i]
             found == SelectSeq(s.issues, LAMBDA x : x.id = entry.issue_id)
             row   == pulled_row(entry, found[1])
             ins   == db_record_time_entry(s.ledger, row.date, row.project,
                                           row.work_package, row.duration,
                                           i \in insert_faults)
             sel == [s EXCEPT !.out.calls = Append(@, "ledger.select"),
                              !.out.failed = IF i \in select_faults
                                             THEN @ \cup { "ledger.select" }
                                             ELSE @]
             s1 == IF found = <<>> THEN s
                   ELSE IF time_entry_exists(s.ledger, row, i \in select_faults)
                   THEN sel
                   ELSE [sel EXCEPT !.ledger = ins.rows,
                                    !.row_session = IF ins.raised THEN @
                                                    ELSE Append(@, s.entry_session[i]),
                                    !.out.calls = Append(@, "ledger.insert"),
                                    !.out.failed = IF ins.raised
                                                   THEN @ \cup { "ledger.insert" }
                                                   ELSE @]
         IN  sync_entries_from(s1, i + 1, select_faults, insert_faults)

\* RedmineManager.sync_time_entries.  failing: the remote calls that raise;
\* select_faults, insert_faults: the entries listed (by their place) at which
\* the SELECT and the INSERT fail.
sync_time_entries(s, failing, select_faults, insert_faults) ==
    IF "time_entry.filter" \in failing
    THEN [s EXCEPT !.out.calls = Append(@, "time_entry.filter"),
                   !.out.failed = @ \cup { "time_entry.filter" }]
    ELSE sync_entries_from([s EXCEPT !.out.calls = Append(@, "time_entry.filter")],
                           1, select_faults, insert_faults)

(***************************************************************************)
(* Refresh of the catalog: update_config_with_projects_and_tickets.        *)
(***************************************************************************)
\* The characters of the model in the order of their code points.
Alphabet ==
    << " ", " - Ticket ", "0", "1", "2", "3", "4", "5", "6", "7", "8", "9",
       ":", "A", "B", "N", "Q", "Z", "f", "h", "p", "u", "x" >>

Rank(c) == CHOOSE i \in 1..Len(Alphabet) : Alphabet[i] = c

RECURSIVE StrLeq(_, _)
\* a <= b for strings
StrLeq(a, b) ==
    IF a = <<>> THEN TRUE
    ELSE IF b = <<>> THEN FALSE
    ELSE IF Head(a) = Head(b) THEN StrLeq(Tail(a), Tail(b))
    ELSE Rank(Head(a)) < Rank(Head(b))

RECURSIVE SetToSeq(_)
SetToSeq(S) ==
    IF S = {} THEN <<>>
    ELSE LET x == CHOOSE y \in S : TRUE IN << x >> \o SetToSeq(S \ { x })

\* sorted(S) for a set of strings
Sorted(S) == SortSeq(SetToSeq(S), LAMBDA a, b : a # b /\ StrLeq(a, b))

\* [f"{issue.id}: {issue.subject}" for issue in issue.filter(project_id=pid)]
ticket_list(iss, pid) ==
    { << IdStr(iss[i].id), ":", " " >> \o iss[i].subject :
          i \in { j \in 1..Len(iss) : iss[j].project_id = pid } }

\* A faulty loop that replaces the tickets of a project by those listed.
RECURSIVE refresh_from_replacing(_, _, _, _, _)
refresh_from_replacing(cat, iss, i, backup_proj, failing_projects) ==
    IF i > Len(remote_projects) THEN cat
    ELSE LET proj == remote_projects[i]
             merged == Sorted(ticket_list(iss, proj.id))
             next == IF proj.name = backup_proj \/ proj.id \in failing_projects
                     THEN cat
                     ELSE [projects |-> cat.projects \cup { proj.name },
                           work_packages |->
                               [n \in DOMAIN cat.work_packages \cup { proj.name } |->
                                   IF n = proj.name THEN merged
                                   ELSE cat.work_packages[n]]]
         IN  refresh_from_replacing(next, iss, i + 1, backup_proj, failing_projects)

\* the loop of the refresh over the remote projects, from the i-th on, on the
\* catalog cat = [projects: a set, work_packages: a dictionary]
RECURSIVE refresh_from(_, _, _, _, _)
refresh_from(cat, iss, i, backup_proj, failing_projects) ==
    IF i > Len(remote_projects) THEN cat
    ELSE LET proj == remote_projects[i]
             existing == Range(Get(cat.work_packages, proj.name, << >>))
             merged == Sorted(existing \cup ticket_list(iss, proj.id))
             next == IF proj.name = backup_proj \/ proj.id \in failing_projects
                     THEN cat
                     ELSE [projects |-> cat.projects \cup { proj.name },
                           work_packages |->
                               [n \in DOMAIN cat.work_packages \cup { proj.name } |->
                                   IF n = proj.name THEN merged
                                   ELSE cat.work_packages[n]]]
         IN  refresh_from(next, iss, i + 1, backup_proj, failing_projects)

\* DEFAULT_CONFIG[key] as it is now: an object the configuration shares has
\* the value the configuration has under that key.
DefaultOf(s, key) ==
    IF key \in s.shared THEN s.config[key] ELSE s.default_config[key]

\* ConfigurationManager.load_config in a new process.  Without a config.yaml
\* a copy of DEFAULT_CONFIG is saved and another is returned; a key the file
\* lacks gets the value of DEFAULT_CONFIG itself and nothing is saved.
load_config(s) ==
    IF s.file_keys = {}
    THEN [s EXCEPT !.config = DEFAULT_CONFIG, !.config_file = DEFAULT_CONFIG,
                   !.file_keys = ObjectKeys, !.default_config = DefaultObjects,
                   !.shared = ObjectKeys]
    ELSE [s EXCEPT !.config = [k \in DOMAIN s.config_file |->
                                  IF k \in ObjectKeys \ s.file_keys
                                  THEN DEFAULT_CONFIG[k] ELSE s.config_file[k]],
                   !.default_config = DefaultObjects,
                   !.shared = ObjectKeys \ s.file_keys]

\* ConfigurationManager.save_config
save_config(s) == [s EXCEPT !.config_file = s.config, !.file_keys = ObjectKeys]

\* A faulty refresh that does not look at the flag REDMINE_CONFIG_UPDATED.
update_config_every_time(s, failing, failing_projects) ==
    IF ~s.redmine THEN s
    ELSE IF "project.all" \in failing
    THEN [s EXCEPT !.out.calls = Append(@, "project.all"),
                   !.out.failed = @ \cup { "project.all" }]
    ELSE
    LET cat == refresh_from([projects |-> Range(s.config.projects),
                             work_packages |-> s.config.work_packages],
                            s.issues, 1, s.config.REDMINE_BACKUP_PROJECT,
                            failing_projects)
        listed == SelectSeq(remote_projects,
                            LAMBDA p : p.name # s.config.REDMINE_BACKUP_PROJECT)
        raised == \E i \in 1..Len(listed) : listed[i].id \in failing_projects
    IN  save_config([s EXCEPT !.config.projects = Sorted(cat.projects),
                              !.config.work_packages = cat.work_packages,
                              !.config.REDMINE_CONFIG_UPDATED = TRUE,
                              !.out.calls = @ \o << "project.all" >>
                                  \o [i \in 1..Len(listed) |-> "issue.filter"],
                              !.out.failed = IF raised
                                             THEN @ \cup { "issue.filter" }
                                             ELSE @])

\* RedmineManager.update_config_with_projects_and_tickets.  failing: the
\* remote calls that raise; failing_projects: the projects (ids) whose issue
\* listing raises.
update_config_with_projects_and_tickets(s, failing, failing_projects) ==
    IF s.config.REDMINE_CONFIG_UPDATED THEN s
    ELSE IF ~s.redmine THEN s
    ELSE IF "project.all" \in failing
    THEN [s EXCEPT !.out.calls = Append(@, "project.all"),
                   !.out.failed = @ \cup { "project.all" }]
    ELSE
    LET cat == refresh_from([projects |-> Range(s.config.projects),
                             work_packages |-> s.config.work_packages],
                            s.issues, 1, s.config.REDMINE_BACKUP_PROJECT,
                            failing_projects)
        listed == SelectSeq(remote_projects,
                            LAMBDA p : p.name # s.config.REDMINE_BACKUP_PROJECT)
        raised == \E i \in 1..Len(listed) : listed[i].id \in failing_projects
    IN  save_config([s EXCEPT !.config.projects = Sorted(cat.projects),
                              !.config.work_packages = cat.work_packages,
                              !.config.REDMINE_CONFIG_UPDATED = TRUE,
                              !.default_config.projects = DefaultOf(s, "projects"),
                              !.shared = @ \ { "projects" },
                              !.out.calls = @ \o << "project.all" >>
                                  \o [i \in 1..Len(listed) |-> "issue.filter"],
                              !.out.failed = IF raised
                                             THEN @ \cup { "issue.filter" }
                                             ELSE @])

(***************************************************************************)
(* Login: RedmineManager.connect.  What the user and the remote tracker    *)
(* answer during one construction of the program is a record login:        *)
(*   url              the URL entered when asked for (<<>>: none)          *)
(*   use_stored       the answer to "use the stored credentials?"          *)
(*   stored_ok        the remote tracker accepts the stored credentials    *)
(*   answers          what happens at each interactive attempt, in order   *)
(*   store            the answer to "store the credentials?"               *)
(*   chosen           the backup project chosen in the dialog (<<>>: none) *)
(*   failing_projects the projects (ids) whose issue listing raises        *)
(***************************************************************************)
Password == << "p" >>

\* base64.b64encode, as a tag on the string encoded
B64Encode(str) == << "b64" >> \o str

\* encrypt_credentials
encrypt_credentials(username, password) ==
    B64Encode(username \o << ":" >> \o password)

\* connect's max_attempts
max_attempts == 3

\* A faulty loop in which a cancelled username prompt is not counted.
RECURSIVE connect_loop_uncounted(_, _, _, _)
connect_loop_uncounted(s, attempts, i, login) ==
    IF attempts >= max_attempts THEN [s EXCEPT !.connect_returned = "false"]
    ELSE IF i > Len(login.answers) THEN [s EXCEPT !.connect_returned = "blocked"]
    ELSE
    LET asked_user == [s EXCEPT !.out.calls = Append(@, "ask.username")]
        asked_both == [asked_user EXCEPT !.out.calls = Append(@, "ask.password")]
        tried == [asked_both EXCEPT !.redmine = TRUE,
                                    !.out.calls = Append(@, "login")]
    IN  CASE login.answers[i] = "no_username" ->
                 connect_loop_uncounted(asked_user, attempts, i + 1, login)
          [] login.answers[i] = "no_password" ->
                 connect_loop_uncounted(asked_both, attempts + 1, i + 1, login)
          [] login.answers[i] = "rejected" ->
                 connect_loop_uncounted([tried EXCEPT !.out.failed = @ \cup { "login" }],
                                        attempts + 1, i + 1, login)
          [] OTHER ->
                 [tried EXCEPT !.out.calls = Append(@, "ask.store"),
                               !.config.REDMINE_CREDENTIALS =
                                   IF login.store
                                   THEN encrypt_credentials(UserName, Password)
                                   ELSE @,
                               !.connect_returned = "true"]

\* The loop of connect: while attempts < max_attempts, from the i-th answer
\* on.  "login" is Redmine(url, username, password) and user.get('current').
\* With no answer left the dialog stays open: "blocked".
RECURSIVE connect_loop(_, _, _, _)
connect_loop(s, attempts, i, login) ==
    IF attempts >= max_attempts THEN [s EXCEPT !.connect_returned = "false"]
    ELSE IF i > Len(login.answers) THEN [s EXCEPT !.connect_returned = "blocked"]
    ELSE
    LET asked_user == [s EXCEPT !.out.calls = Append(@, "ask.username")]
        asked_both == [asked_user EXCEPT !.out.calls = Append(@, "ask.password")]
        tried == [asked_both EXCEPT !.redmine = TRUE,
                                    !.out.calls = Append(@, "login")]
    IN  CASE login.answers[i] = "no_username" ->
                 connect_loop(asked_user, attempts + 1, i + 1, login)
          [] login.answers[i] = "no_password" ->
                 connect_loop(asked_both, attempts + 1, i + 1, login)
          [] login.answers[i] = "rejected" ->
                 connect_loop([tried EXCEPT !.out.failed = @ \cup { "login" }],
                              attempts + 1, i + 1, login)
          [] OTHER ->
                 [tried EXCEPT !.out.calls = Append(@, "ask.store"),
                               !.config.REDMINE_CREDENTIALS =
                                   IF login.store
                                   THEN encrypt_credentials(UserName, Password)
                                   ELSE @,
                               !.connect_returned = "true"]

\* RedmineManager.connect
connect(s, login) ==
    IF s.redmine_url = <<>> THEN [s EXCEPT !.connect_returned = "false"]
    ELSE IF s.config.REDMINE_CREDENTIALS # <<>>
    THEN LET asked == [s EXCEPT !.out.calls = Append(@, "ask.use_stored")]
             tried == [asked EXCEPT !.redmine = TRUE,
                                    !.out.calls = Append(@, "login")]
         IN  IF ~login.use_stored THEN connect_loop(asked, 0, 1, login)
             ELSE IF login.stored_ok THEN [tried EXCEPT !.connect_returned = "true"]
             ELSE connect_loop([tried EXCEPT !.out.failed = @ \cup { "login" }],
                               0, 1, login)
    ELSE connect_loop(s, 0, 1, login)

\* RedmineManager.__init__
new_manager(s) ==
    [s EXCEPT !.redmine_url = s.config.REDMINE_URL,
              !.backup_project = s.config.REDMINE_BACKUP_PROJECT,
              !.redmine = FALSE, !.connect_returned = "none"]

\* project_combobox.set(projects[0]) and update_work_packages_for_project
select_first(s) ==
    LET p == IF s.config.projects # <<>> THEN s.config.projects[1] ELSE s.project
        wp_list == Get(s.config.work_packages, Strip(p), << >>)
    IN  [s EXCEPT !.project = p,
                  !.work_package = IF wp_list # <<>> THEN wp_list[1] ELSE <<>>]

\* TimeTrackerApp.__init__ where connect() returned True: the refresh of the
\* catalog, the user's login name, the backup project and the pull.
after_connect(s, login, failing) ==
    LET s1 == select_first(
                  update_config_with_projects_and_tickets(s, failing,
                                                          login.failing_projects))
        s2 == IF s1.config.REDMINE_USER # <<>> THEN s1
              ELSE IF "user.get" \in failing
              THEN [s1 EXCEPT !.out.calls = Append(@, "user.get"),
                              !.out.failed = @ \cup { "user.get" }]
              ELSE save_config([s1 EXCEPT !.out.calls = Append(@, "user.get"),
                                          !.config.REDMINE_USER = UserName])
        s3 == IF s2.config.REDMINE_BACKUP_PROJECT # <<>> THEN s2
              ELSE IF "project.all" \in failing
              THEN [s2 EXCEPT !.out.calls = Append(@, "project.all"),
                              !.out.failed = @ \cup { "project.all" }]
              ELSE IF login.chosen = <<>>
              THEN [s2 EXCEPT !.out.calls = Append(@, "project.all")]
              ELSE save_config([s2 EXCEPT !.out.calls = Append(@, "project.all"),
                                          !.config.REDMINE_BACKUP_PROJECT =
                                              login.chosen])
    IN  sync_time_entries(sync_my_tickets(s3, failing, {}, {}), failing, {}, {})

\* The loop of change_redmine_url from the i-th round on: the URL of that
\* round is in the configuration; a new manager connects; when that fails
\* the next URL is asked for.  rounds: the URLs entered (<<>>: the prompt is
\* cancelled, as is the prompt after the last round) and the logins.
RECURSIVE change_url_loop(_, _, _, _)
change_url_loop(s, rounds, i, failing) ==
    LET c == connect(new_manager(s), rounds[i].login)
    IN  IF c.connect_returned = "true"
        THEN [sync_my_tickets(
                  select_first(
                      update_config_with_projects_and_tickets(save_config(c),
                                                              failing, {})),
                  failing, {}, {})
                 EXCEPT !.out.res = "changed"]
        ELSE LET asked == [c EXCEPT !.out.calls = Append(@, "ask.url"),
                                    !.out.res = "cancelled"]
             IN  IF i + 1 > Len(rounds) \/ rounds[i + 1].url = <<>> THEN asked
                 ELSE change_url_loop(
                          [asked EXCEPT !.config.REDMINE_URL = rounds[i + 1].url],
                          rounds, i + 1, failing)

\* TimeTrackerApp.change_redmine_url
change_redmine_url(s, rounds, failing) ==
    LET asked == [s EXCEPT !.out.calls = Append(@, "ask.url"),
                           !.out.res = "cancelled"]
    IN  IF rounds = <<>> \/ rounds[1].url = <<>> THEN asked
        ELSE change_url_loop([asked EXCEPT !.config.REDMINE_URL = rounds[1].url],
                             rounds, 1, failing)

\* TimeTrackerApp.manage_projects.add_project: projects.append(proj) on the
\* list of the configuration, then update_projects(projects)
add_project(s, proj) ==
    IF proj # <<>> /\ proj \notin Range(s.config.projects)
    THEN [save_config([s EXCEPT !.config.projects = Append(@, proj)])
             EXCEPT !.out.res = "added"]
    ELSE [s EXCEPT !.out.res = "unchanged"]

\* TimeTrackerApp.change_backup_project.  chosen: what choose_backup_project
\* returns when project.all() does not raise ("" when the dialog is closed).
change_backup_project(s, chosen, failing) ==
    IF ~s.redmine THEN [s EXCEPT !.out.res = "no_connection"]
    ELSE IF "project.all" \in failing
    THEN [s EXCEPT !.out.calls = Append(@, "project.all"),
                   !.out.failed = @ \cup { "project.all" },
                   !.out.res = "unchanged"]
    ELSE IF chosen = <<>>
    THEN [s EXCEPT !.out.calls = Append(@, "project.all"), !.out.res = "unchanged"]
    ELSE [save_config([s EXCEPT !.out.calls = Append(@, "project.all"),
                                !.config.REDMINE_BACKUP_PROJECT = chosen])
             EXCEPT !.out.res = "changed"]

\* TimeTrackerApp.sync_redmine_tickets.  select_faults, insert_faults: the
\* remote time entries at which the ledger's SELECT and INSERT fail.
sync_redmine_tickets(s, failing, select_faults, insert_faults) ==
    IF s.redmine
    THEN [sync_time_entries(sync_my_tickets(s, failing, {}, {}), failing,
                            select_faults, insert_faults)
             EXCEPT !.out.res = "synced"]
    ELSE [s EXCEPT !.out.res = "no_connection"]

\* TimeTrackerApp.update_timer: shows the time and schedules the next tick,
\* update_job = master.after(100, update_timer)
update_timer(s) ==
    IF s.running THEN [s EXCEPT !.update_job = TRUE, !.after_queue = @ + 1] ELSE s

\* A faulty start_timer that starts again while the timer is running.
start_timer_unguarded(s, t) ==
    update_timer([s EXCEPT !.running = TRUE, !.start_time = Time(t),
                           !.session = IF s.elapsed_time = 0 THEN t ELSE @])

\* TimeTrackerApp.start_timer
start_timer(s, t) ==
    IF ~s.running
    THEN update_timer([s EXCEPT !.running = TRUE, !.start_time = Time(t),
                                !.session = IF s.elapsed_time = 0 THEN t ELSE @])
    ELSE s

\* A faulty pause_timer that leaves the scheduled callback in the queue.
pause_timer_uncancelled(s, t) ==
    IF s.running
    THEN [s EXCEPT !.running = FALSE,
                   !.elapsed_time = @ + (Time(t) - s.start_time)]
    ELSE s

\* A faulty pause_timer that stops the timer and drops the running period.
pause_timer_dropping(s, t) ==
    IF s.running
    THEN [s EXCEPT !.running = FALSE, !.update_job = FALSE, !.after_queue = 0]
    ELSE s

\* TimeTrackerApp.pause_timer.  after_cancel(update_job) takes the callback
\* scheduled last out of the queue.
pause_timer(s, t) ==
    IF s.running
    THEN [s EXCEPT !.running = FALSE,
                   !.elapsed_time = @ + (Time(t) - s.start_time),
                   !.update_job = FALSE,
                   !.after_queue = IF s.update_job THEN @ - 1 ELSE @]
    ELSE s

\* TimeTrackerApp.auto_backup
auto_backup(s, t) ==
    IF s.elapsed_time > 0
    THEN LET current_elapsed == IF s.running
                                THEN s.elapsed_time + (Time(t) - s.start_time)
                                ELSE s.elapsed_time
         IN  update_backup(s, [elapsed_time |-> current_elapsed,
                               project |-> s.project,
                               work_package |-> s.work_package])
    ELSE s

\* A faulty record_time that pushes first and writes the ledger only when
\* the push returned an issue.
record_time_remote_first(s, t, storage_fault, failing, stop) ==
    LET s1 == IF s.running
              THEN [pause_timer(s, t) EXCEPT !.out.calls = << "pause_timer" >>]
              ELSE s
        proj == Strip(s1.project)
        wp == Strip(s1.work_package)
        date_str == date_of(t)
    IN
    IF s1.elapsed_time <= 0
    THEN [s1 EXCEPT !.out.res = "no_time"]
    ELSE IF proj = <<>> \/ wp = <<>>
    THEN [s1 EXCEPT !.out.res = "no_selection"]
    ELSE
    LET psh == create_time_entry(s1, proj, wp, s1.elapsed_time, date_str, failing)
        s2  == [s1 EXCEPT !.issues = psh.issues, !.time_entries = psh.time_entries,
                          !.entry_session =
                              IF Len(psh.time_entries) > Len(s1.time_entries)
                              THEN Append(@, s1.session) ELSE @,
                          !.out.calls = @ \o psh.calls,
                          !.out.failed = psh.failed,
                          !.out.ret = psh.ret]
        ins == IF psh.ret = NoId
               THEN [raised |-> TRUE, rows |-> s2.ledger]
               ELSE db_record_time_entry(s2.ledger, date_str, proj, wp,
                                         s2.elapsed_time, storage_fault)
        s3  == [s2 EXCEPT !.ledger = ins.rows,
                          !.out.res = IF ins.raised THEN "save_failed" ELSE "saved",
                          !.out.calls = Append(@, "ledger.insert"),
                          !.row_session = IF ins.raised THEN @
                                          ELSE Append(@, s1.session)]
    IN  IF stop = "end"
        THEN clear_backup([s3 EXCEPT !.elapsed_time = 0, !.session = NoTime])
        ELSE s3

\* TimeTrackerApp.record_time.  storage_fault, failing: what fails during the
\* call.  stop: "end", or the place where the process is killed.
record_time(s, t, storage_fault, failing, stop) ==
    LET s1 == IF s.running
              THEN [pause_timer(s, t) EXCEPT !.out.calls = << "pause_timer" >>]
              ELSE s
        proj == Strip(s1.project)
        wp == Strip(s1.work_package)
        date_str == date_of(t)
    IN
    IF s1.elapsed_time <= 0
    THEN [s1 EXCEPT !.out.res = "no_time"]
    ELSE IF proj = <<>> \/ wp = <<>>
    THEN [s1 EXCEPT !.out.res = "no_selection"]
    ELSE
    LET ins == db_record_time_entry(s1.ledger, date_str, proj, wp,
                                    s1.elapsed_time, storage_fault)
        res == IF ins.raised THEN "save_failed" ELSE "saved"
        s2  == [s1 EXCEPT !.ledger = ins.rows, !.out.res = res,
                          !.out.calls = Append(@, "ledger.insert"),
                          !.out.failed = IF ins.raised THEN { "ledger.insert" }
                                         ELSE {},
                          !.row_session = IF ins.raised THEN @
                                          ELSE Append(@, s1.session)]
        psh == create_time_entry(s2, proj, wp, s2.elapsed_time, date_str, failing)
        s3  == [s2 EXCEPT !.issues = psh.issues, !.time_entries = psh.time_entries,
                          !.entry_session =
                              IF Len(psh.time_entries) > Len(s2.time_entries)
                              THEN Append(@, s2.session) ELSE @,
                          !.out.calls = @ \o psh.calls,
                          !.out.failed = @ \cup psh.failed,
                          !.out.ret = psh.ret]
        s4  == clear_backup([s3 EXCEPT !.elapsed_time = 0, !.session = NoTime])
    IN  IF stop = "after_insert" THEN s2
        ELSE IF stop = "after_push" THEN s3
        ELSE s4

\* A faulty restore that puts back the time and forgets the selection.
restore_backup_time_only(s) ==
    [s EXCEPT !.elapsed_time = s.backup.elapsed_time, !.session = s.backup_session]

\* TimeTrackerApp.check_for_backup, choices "fortsetzen" and "speichern": the
\* snapshot is put back into the timer and the comboboxes
restore_backup(s) ==
    [s EXCEPT !.elapsed_time = s.backup.elapsed_time,
              !.project = s.backup.project,
              !.work_package = s.backup.work_package,
              !.session = s.backup_session]

\* TimeTrackerApp.check_for_backup.  choice: BackupChoiceDialog.result
check_for_backup(s, t, choice, storage_fault, failing) ==
    IF s.backup # EmptyBackup /\ s.backup.elapsed_time > 0
    THEN CASE choice = "fortsetzen" -> restore_backup(s)
               [] choice = "speichern" ->
                      record_time(restore_backup(s), t, storage_fault, failing, "end")
               [] choice = "loeschen" -> clear_backup(s)
               [] OTHER -> s
    ELSE s

\* TimeTrackerApp.__init__: the state after construction over the persisted
\* configuration and ledger.  login: what the user and the remote tracker
\* answer while it connects.
construct(s, t, login, choice, storage_fault, failing) ==
    LET s0 == select_first(load_config(
                               [s EXCEPT !.elapsed_time = 0, !.running = FALSE,
                                         !.start_time = NoTime,
                                         !.update_job = FALSE, !.after_queue = 0]))
        s1 == IF s0.config.REDMINE_URL # <<>> THEN s0
              ELSE IF login.url = <<>>
              THEN [s0 EXCEPT !.out.calls = Append(@, "ask.url")]
              ELSE save_config([s0 EXCEPT !.out.calls = Append(@, "ask.url"),
                                          !.config.REDMINE_URL = login.url])
        s2 == connect(new_manager(s1), login)
        s3 == IF s2.connect_returned = "true"
              THEN after_connect(s2, login, failing)
              ELSE s2
    IN  auto_backup(check_for_backup(s3, t, choice, storage_fault, failing), t)

\* A faulty on_close that destroys the window also when the prompt was
\* cancelled.
on_close_always(s, t, choice, storage_fault, failing) ==
    IF s.running \/ s.elapsed_time > 0
    THEN CASE choice = "speichern" ->
                  record_time(s, t, storage_fault, failing, "end")
           [] choice = "verwerfen" -> clear_backup(s)
           [] OTHER -> s
    ELSE s

\* ConfigurationManager.reset_config: DEFAULT_CONFIG.copy() is saved.  The
\* copy is shallow: it holds the list and the dictionary of DEFAULT_CONFIG
\* as they are now.
reset_config(s) ==
    save_config([s EXCEPT !.config =
                              [DEFAULT_CONFIG
                                  EXCEPT !.projects = DefaultOf(s, "projects"),
                                         !.work_packages = DefaultOf(s, "work_packages")],
                          !.default_config =
                              [projects |-> DefaultOf(s, "projects"),
                               work_packages |-> DefaultOf(s, "work_packages")],
                          !.shared = ObjectKeys,
                          !.backup = EmptyBackup,
                          !.backup_session = NoTime])

\* DatabaseManager.reset_database: the database file is removed and made anew
reset_database(s) ==
    [s EXCEPT !.ledger = <<>>, !.row_session = <<>>, !.tickets = <<>>]

\* A faulty reset_app that does not wait for the answer.
reset_app_unasked(s, confirmed) ==
    [reset_database(reset_config(s))
        EXCEPT !.out.res = IF confirmed THEN "reset" ELSE "declined"]

\* TimeTrackerApp.reset_app.  confirmed: the answer to messagebox.askyesno.
\* After out.res = "reset" the process is replaced by a new one (os.execv).
reset_app(s, confirmed) ==
    IF confirmed
    THEN [reset_database(reset_config(s)) EXCEPT !.out.res = "reset"]
    ELSE [s EXCEPT !.out.res = "declined"]

\* TimeTrackerApp.on_close.  choice: ClosePromptDialog.result.  The window is
\* destroyed unless out.res = "open".
on_close(s, t, choice, storage_fault, failing) ==
    IF s.running \/ s.elapsed_time > 0
    THEN CASE choice = "speichern" ->
                  record_time(s, t, storage_fault, failing, "end")
           [] choice = "verwerfen" -> clear_backup(s)
           [] OTHER -> [s EXCEPT !.out.res = "open"]
    ELSE s


(***************************************************************************)
(* The state machine.                                                      *)
(***************************************************************************)
StartupChoices == { "fortsetzen", "speichern", "loeschen", "none" }
CloseChoices == { "speichern", "verwerfen", "abbrechen" }
KillPoints == { "after_insert", "after_push" }
BackupProjects == { <<>>, TargetName, GoneName }

\* What may fail in the remote tracker during one handler: nothing, or one
\* of its calls.
PushFailures == { {} } \cup { { a } : a \in RemoteApis }

\* record_time on s at time t passes its validation and goes on to the ledger.
Validates(s, t) ==
    LET s1 == IF s.running THEN [s EXCEPT !.elapsed_time = @ + (Time(t) - s.start_time)]
              ELSE s
    IN  s1.elapsed_time > 0 /\ Strip(s1.project) # <<>> /\ Strip(s1.work_package) # <<>>

\* The environment of a handler: the storage fault and the failing remote
\* calls, where the handler reaches the ledger and the remote tracker.
Faults(records) == IF records THEN BOOLEAN ELSE { FALSE }

Failures(pushes) == IF pushes THEN PushFailures ELSE { {} }

\* The bounds of the stores.
Fits(s) ==
    /\ Len(s.ledger) <= MaxLedger
    /\ Len(s.issues) <= MaxRemote
    /\ Len(s.time_entries) <= MaxRemote

\* No process: nothing is held in memory.
Down(s) ==
    [s EXCEPT !.running = FALSE, !.start_time = NoTime, !.elapsed_time = 0,
              !.update_job = FALSE, !.project = <<>>, !.work_package = <<>>,
              !.redmine = FALSE, !.session = NoTime,
              !.config = s.config_file, !.redmine_url = <<>>,
              !.connect_returned = "none", !.after_queue = 0,
              !.default_config = DefaultObjects, !.shared = {}]

\* The state after a handler: s, with operation op in the history.
Commit(s, op) ==
    /\ running' = s.running
    /\ start_time' = s.start_time
    /\ elapsed_time' = s.elapsed_time
    /\ update_job' = s.update_job
    /\ project' = s.project
    /\ work_package' = s.work_package
    /\ redmine' = s.redmine
    /\ backup_project' = s.backup_project
    /\ backup' = s.backup
    /\ ledger' = s.ledger
    /\ issues' = s.issues
    /\ time_entries' = s.time_entries
    /\ last' = [s.out EXCEPT !.op = op]
    /\ session' = s.session
    /\ backup_session' = s.backup_session
    /\ row_session' = s.row_session
    /\ tickets' = s.tickets
    /\ config' = s.config
    /\ config_file' = s.config_file
    /\ entry_session' = s.entry_session
    /\ redmine_url' = s.redmine_url
    /\ connect_returned' = s.connect_returned
    /\ after_queue' = s.after_queue
    /\ default_config' = s.default_config
    /\ shared' = s.shared
    /\ file_keys' = s.file_keys

Init ==
    /\ app = "down"
    /\ now = 0
    /\ running = FALSE
    /\ start_time = NoTime
    /\ elapsed_time = 0
    /\ update_job = FALSE
    /\ project = <<>>
    /\ work_package = <<>>
    /\ redmine = FALSE
    /\ backup_project = TargetName
    /\ backup = EmptyBackup
    /\ ledger = <<>>
    /\ issues = <<>>
    /\ time_entries = <<>>
    /\ last = [NoOut EXCEPT !.op = "init"]
    /\ session = NoTime
    /\ backup_session = NoTime
    /\ row_session = <<>>
    /\ tickets = <<>>
    /\ config = ConfiguredConfig
    /\ config_file = ConfiguredConfig
    /\ entry_session = <<>>
    /\ redmine_url = <<>>
    /\ connect_returned = "none"
    /\ after_queue = 0
    /\ default_config = DefaultObjects
    /\ shared = {}
    /\ file_keys = ObjectKeys

\* Wall time passes, up to a limit.
TickUntil(limit) ==
    /\ now < limit
    /\ now' = now + 1
    /\ last' = [NoOut EXCEPT !.op = "quiet"]
    /\ UNCHANGED << app, running, start_time, elapsed_time, update_job, project,
                    work_package, redmine, backup_project, backup, ledger,
                    issues, time_entries, session, backup_session, row_session,
                    tickets, config, config_file, entry_session, redmine_url,
                    connect_returned, after_queue,
                    default_config, shared, file_keys >>

Tick == TickUntil(MaxTime)

\* Every prompt of the login is cancelled.
LoginCancelled ==
    [url |-> <<>>, use_stored |-> FALSE, stored_ok |-> FALSE,
     answers |-> [i \in 1..max_attempts |-> "no_username"], store |-> FALSE,
     chosen |-> <<>>, failing_projects |-> {}]

\* The first login entered is accepted; the credentials are not stored.
LoginAccepted == [LoginCancelled EXCEPT !.answers = << "accepted" >>]

\* A login of these answers makes connect() return True, if it is asked.
Accepts(stored_ok, answers) ==
    stored_ok \/ \E i \in 1..Len(answers) : answers[i] = "accepted"

\* The login makes a handle for the remote tracker.
Tries(login) ==
    \/ login.use_stored
    \/ \E i \in 1..Len(login.answers) : login.answers[i] \in { "rejected", "accepted" }

\* The program is started.  logins: what may be answered while it connects;
\* failures: the remote calls that may fail after a login, besides those of
\* a push.  Where the answers run out the login dialog stays open.
StartupWith(logins, failures) ==
    /\ app = "down"
    /\ \E login \in logins,
          choice \in (IF backup = EmptyBackup THEN { "none" } ELSE StartupChoices) :
       \E storage_fault \in Faults(choice = "speichern"),
          failing \in Failures(choice = "speichern" /\ Tries(login))
                          \cup (IF Accepts(login.stored_ok, login.answers)
                                THEN failures ELSE {}) :
          LET s == construct(St, now, login, choice, storage_fault, failing)
          IN  /\ Fits(s)
              /\ Commit(s, "startup_" \o choice)
              /\ app' = IF s.connect_returned = "blocked" THEN "login" ELSE "up"
    /\ UNCHANGED now

\* The program is started where the remote tracker cannot be reached.
Startup == StartupWith({ LoginCancelled }, {})

StartTimer ==
    /\ app = "up"
    /\ Commit(start_timer(St, now), "quiet")
    /\ UNCHANGED << app, now >>

PauseTimer ==
    /\ app = "up"
    /\ Commit(pause_timer(St, now), "quiet")
    /\ UNCHANGED << app, now >>

\* The periodic checkpoint fires.
AutoBackup ==
    /\ app = "up"
    /\ Commit(auto_backup(St, now), "auto_backup")
    /\ UNCHANGED << app, now >>

RecordTime ==
    /\ app = "up"
    /\ \E storage_fault \in Faults(Validates(St, now)),
          failing \in Failures(Validates(St, now) /\ redmine) :
          LET s == record_time(St, now, storage_fault, failing, "end")
          IN  /\ Fits(s)
              /\ Commit(s, "record")
    /\ UNCHANGED << app, now >>

\* The process is killed inside record_time.
RecordTimeKilled ==
    /\ app = "up"
    /\ Validates(St, now)
    /\ \E storage_fault \in BOOLEAN, stop \in KillPoints :
       \E failing \in Failures(stop = "after_push" /\ redmine) :
          LET s == record_time(St, now, storage_fault, failing, stop)
          IN  /\ s.out.res \in { "saved", "save_failed" }
              /\ Fits(s)
              /\ Commit(Down(s), "record_killed")
    /\ app' = "down"
    /\ UNCHANGED now

\* <<ComboboxSelected>> of the project combobox
SelectProject ==
    /\ app = "up"
    /\ \E i \in 1..Len(config_projects) :
          Commit([St EXCEPT !.project = config_projects[i],
                            !.work_package = FirstWorkPackage(config_projects[i])],
                 "quiet")
    /\ UNCHANGED << app, now >>

\* <<ComboboxSelected>> of the work package combobox
SelectWorkPackage ==
    /\ app = "up"
    /\ LET wp_list == config_work_packages(Strip(project))
       IN  \E i \in 1..Len(wp_list) :
              Commit([St EXCEPT !.work_package = wp_list[i]],
                     "quiet")
    /\ UNCHANGED << app, now >>

OnClose ==
    /\ app = "up"
    /\ \E choice \in CloseChoices :
       \E storage_fault \in Faults(choice = "speichern" /\ Validates(St, now)),
          failing \in Failures(choice = "speichern" /\ Validates(St, now) /\ redmine) :
          LET s == on_close(St, now, choice, storage_fault, failing)
          IN  /\ Fits(s)
              /\ IF s.out.res = "open"
                 THEN Commit(s, "quiet") /\ app' = "up"
                 ELSE Commit(Down(s), "closed") /\ app' = "down"
    /\ UNCHANGED now

\* The process is killed between two handlers.
Crash ==
    /\ app = "up"
    /\ Commit(Down(St), "crash")
    /\ app' = "down"
    /\ UNCHANGED now

Next ==
    \/ Tick
    \/ Startup
    \/ StartTimer
    \/ PauseTimer
    \/ AutoBackup
    \/ RecordTime
    \/ RecordTimeKilled
    \/ SelectProject
    \/ SelectWorkPackage
    \/ OnClose
    \/ Crash

Spec == Init /\ [][Next]_vars

(***************************************************************************)
(* The program with the remote tracker: connect() succeeds or not at each  *)
(* startup, and record_time pushes when it did.                            *)
(***************************************************************************)
TickOnline == TickUntil(MaxOnlineTime)

StartupOnline == StartupWith({ LoginCancelled, LoginAccepted }, {})

\* Menu "Redmine Tickets synchronisieren".  failures: the remote calls that
\* may fail.
SyncWith(failures) ==
    /\ app = "up"
    /\ \E failing \in failures :
          LET s == sync_redmine_tickets(St, failing, {}, {})
          IN  /\ Fits(s)
              /\ Commit(s, "sync")
    /\ UNCHANGED << app, now >>

SyncNow == SyncWith({ {} })

NextOnline ==
    \/ TickOnline
    \/ StartupOnline
    \/ StartTimer
    \/ PauseTimer
    \/ AutoBackup
    \/ RecordTime
    \/ RecordTimeKilled
    \/ SelectProject
    \/ SelectWorkPackage
    \/ OnClose
    \/ Crash

SpecOnline == Init /\ [][NextOnline]_vars

\* The app where the remote tracker can be reached and the menu
\* synchronises: what is recorded and pushed is pulled again.
NextReconcile == NextOnline \/ SyncNow

SpecReconcile == Init /\ [][NextReconcile]_vars


(***************************************************************************)
(* The push alone: create_time_entry called again and again on one         *)
(* manager, with any project, work package and duration and any remote     *)
(* calls failing.                                                          *)
(***************************************************************************)
PushProjects == { ProjA, ProjB }
PushWorkPackages == { WpFix, << "7" >> }
PushDurations == { 1, 901 }

InitPush ==
    /\ app = "push"
    /\ now = 0
    /\ running = FALSE
    /\ start_time = NoTime
    /\ elapsed_time = 0
    /\ update_job = FALSE
    /\ project = <<>>
    /\ work_package = <<>>
    /\ redmine \in BOOLEAN
    /\ backup_project \in BackupProjects
    /\ backup = EmptyBackup
    /\ ledger = <<>>
    /\ issues = <<>>
    /\ time_entries = <<>>
    /\ last = [NoOut EXCEPT !.op = "init"]
    /\ session = NoTime
    /\ backup_session = NoTime
    /\ row_session = <<>>
    /\ tickets = <<>>
    /\ config = ConfiguredConfig
    /\ config_file = ConfiguredConfig
    /\ entry_session = <<>>
    /\ redmine_url = <<>>
    /\ connect_returned = "none"
    /\ after_queue = 0
    /\ default_config = DefaultObjects
    /\ shared = {}
    /\ file_keys = ObjectKeys

PushCall ==
    /\ app = "push"
    /\ \E p \in PushProjects, wp \in PushWorkPackages, d \in PushDurations,
          failing \in SUBSET RemoteApis :
          LET r == create_time_entry(St, p, wp, d, date_of(now), failing)
          IN  /\ Len(r.issues) <= MaxIssues
              /\ Len(r.time_entries) <= MaxEntries
              /\ issues' = r.issues
              /\ time_entries' = r.time_entries
              /\ entry_session' = IF Len(r.time_entries) > Len(time_entries)
                                  THEN Append(entry_session, NoTime)
                                  ELSE entry_session
              /\ last' = [op |-> "push", res |-> "", calls |-> r.calls,
                          failed |-> r.failed, ret |-> r.ret, args |-> <<>>]
    /\ UNCHANGED << app, now, running, start_time, elapsed_time, update_job,
                    project, work_package, redmine, backup_project, backup,
                    ledger, session, backup_session, row_session, tickets,
                    config, config_file, redmine_url, connect_returned,
                    after_queue,
                    default_config, shared, file_keys >>

NextPush == PushCall

SpecPush == InitPush /\ [][NextPush]_vars

(***************************************************************************)
(* The subject of a push: create_time_entry is called once, on an empty    *)
(* remote tracker, for each work-package string the user can have typed    *)
(* into the work-package dialog.                                           *)
(***************************************************************************)
WpAlphabet == { "7", ":", " " }

\* entry.get().strip(), when it is not empty
WpStrings ==
    { s \in UNION { [1..n -> WpAlphabet] : n \in 1..MaxWpLen } : Strip(s) = s }

InitSubject ==
    /\ app = "subject"
    /\ now = 0
    /\ running = FALSE
    /\ start_time = NoTime
    /\ elapsed_time = 0
    /\ update_job = FALSE
    /\ project = ProjA
    /\ work_package \in WpStrings
    /\ redmine = TRUE
    /\ backup_project = TargetName
    /\ backup = EmptyBackup
    /\ ledger = <<>>
    /\ issues = <<>>
    /\ time_entries = <<>>
    /\ last = [NoOut EXCEPT !.op = "init"]
    /\ session = NoTime
    /\ backup_session = NoTime
    /\ row_session = <<>>
    /\ tickets = <<>>
    /\ config = ConfiguredConfig
    /\ config_file = ConfiguredConfig
    /\ entry_session = <<>>
    /\ redmine_url = <<>>
    /\ connect_returned = "none"
    /\ after_queue = 0
    /\ default_config = DefaultObjects
    /\ shared = {}
    /\ file_keys = ObjectKeys

\* create_time_entry(project, work_package, 900, date) with no remote failure
SubjectPush ==
    /\ app = "subject"
    /\ issues = <<>>
    /\ LET r == create_time_entry(St, project, work_package, 900, date_of(now), {})
       IN  /\ issues' = r.issues
           /\ time_entries' = r.time_entries
           /\ entry_session' = IF Len(r.time_entries) > Len(time_entries)
                               THEN Append(entry_session, NoTime)
                               ELSE entry_session
           /\ last' = [op |-> "push", res |-> "", calls |-> r.calls,
                       failed |-> r.failed, ret |-> r.ret, args |-> <<>>]
    /\ UNCHANGED << app, now, running, start_time, elapsed_time, update_job,
                    project, work_package, redmine, backup_project, backup,
                    ledger, session, backup_session, row_session, tickets,
                    config, config_file, redmine_url, connect_returned,
                    after_queue,
                    default_config, shared, file_keys >>

NextSubject == SubjectPush

SpecSubject == InitSubject /\ [][NextSubject]_vars

(***************************************************************************)
(* The forecast: fetch_avg_duration_for is called for any pair of project  *)
(* and work package over any ledger of up to MaxLedger rows.               *)
(***************************************************************************)
AvgProjects == { ProjA, ProjB }
AvgWorkPackages == { WpFix, << "7" >> }
AvgDurations == { 1, 900, 1801 }

AvgRows ==
    [date : { 0 }, project : AvgProjects, work_package : AvgWorkPackages,
     duration : AvgDurations]

\* The ledgers: work_log holds no 4-tuple twice.
AvgLedgers ==
    { l \in UNION { [1..n -> AvgRows] : n \in 0..MaxLedger } :
          \A i, j \in 1..Len(l) : l[i] = l[j] => i = j }

InitAvg ==
    /\ app = "avg"
    /\ now = 0
    /\ running = FALSE
    /\ start_time = NoTime
    /\ elapsed_time = 0
    /\ update_job = FALSE
    /\ project = <<>>
    /\ work_package = <<>>
    /\ redmine = FALSE
    /\ backup_project = <<>>
    /\ backup = EmptyBackup
    /\ ledger \in AvgLedgers
    /\ issues = <<>>
    /\ time_entries = <<>>
    /\ last = [NoOut EXCEPT !.op = "init"]
    /\ session = NoTime
    /\ backup_session = NoTime
    /\ row_session = [i \in 1..Len(ledger) |-> NoTime]
    /\ tickets = <<>>
    /\ config = ConfiguredConfig
    /\ config_file = ConfiguredConfig
    /\ entry_session = <<>>
    /\ redmine_url = <<>>
    /\ connect_returned = "none"
    /\ after_queue = 0
    /\ default_config = DefaultObjects
    /\ shared = {}
    /\ file_keys = ObjectKeys

\* fetch_avg_duration_for(p, wp) is called; the pair is kept in the selection
\* and the value returned in last.ret.
FetchAvg ==
    /\ app = "avg"
    /\ \E p \in AvgProjects, wp \in AvgWorkPackages, select_fault \in BOOLEAN :
          /\ project' = p
          /\ work_package' = wp
          /\ last' = [NoOut EXCEPT !.op = "avg",
                                   !.calls = << "ledger.select" >>,
                                   !.failed = IF select_fault
                                              THEN { "ledger.select" } ELSE {},
                                   !.ret = fetch_avg_duration_for(ledger, p, wp,
                                                                  select_fault)]
    /\ UNCHANGED << app, now, running, start_time, elapsed_time, update_job,
                    redmine, backup_project, backup, ledger, issues,
                    time_entries, session, backup_session, row_session, tickets,
                    config, config_file, entry_session, redmine_url,
                    connect_returned, after_queue,
                    default_config, shared, file_keys >>

NextAvg == FetchAvg

SpecAvg == InitAvg /\ [][NextAvg]_vars

(***************************************************************************)
(* The push again: create_time_entry is called again and again for the     *)
(* project and work package selected, with any one remote call failing,    *)
(* and the selection changes in between.                                   *)
(***************************************************************************)
InitRetry ==
    /\ app = "retry"
    /\ now = 0
    /\ running = FALSE
    /\ start_time = NoTime
    /\ elapsed_time = 0
    /\ update_job = FALSE
    /\ project \in PushProjects
    /\ work_package \in PushWorkPackages
    /\ redmine = TRUE
    /\ backup_project = TargetName
    /\ backup = EmptyBackup
    /\ ledger = <<>>
    /\ issues = <<>>
    /\ time_entries = <<>>
    /\ last = [NoOut EXCEPT !.op = "init"]
    /\ session = NoTime
    /\ backup_session = NoTime
    /\ row_session = <<>>
    /\ tickets = <<>>
    /\ config = ConfiguredConfig
    /\ config_file = ConfiguredConfig
    /\ entry_session = <<>>
    /\ redmine_url = <<>>
    /\ connect_returned = "none"
    /\ after_queue = 0
    /\ default_config = DefaultObjects
    /\ shared = {}
    /\ file_keys = ObjectKeys

\* create_time_entry(project, work_package, d, date) is called.
PushSelected ==
    /\ app = "retry"
    /\ \E d \in PushDurations, failing \in PushFailures :
          LET r == create_time_entry(St, project, work_package, d, date_of(now),
                                     failing)
          IN  /\ Len(r.issues) <= MaxIssues
              /\ Len(r.time_entries) <= MaxEntries
              /\ issues' = r.issues
              /\ time_entries' = r.time_entries
              /\ entry_session' = IF Len(r.time_entries) > Len(time_entries)
                                  THEN Append(entry_session, NoTime)
                                  ELSE entry_session
              /\ last' = [op |-> "push", res |-> "", calls |-> r.calls,
                          failed |-> r.failed, ret |-> r.ret, args |-> <<>>]
    /\ UNCHANGED << app, now, running, start_time, elapsed_time, update_job,
                    project, work_package, redmine, backup_project, backup,
                    ledger, session, backup_session, row_session, tickets,
                    config, config_file, redmine_url, connect_returned,
                    after_queue, default_config, shared, file_keys >>

\* Another project or work package is selected.
SelectOther ==
    /\ app = "retry"
    /\ \E p \in PushProjects, wp \in PushWorkPackages :
          /\ << p, wp >> # << project, work_package >>
          /\ project' = p
          /\ work_package' = wp
    /\ last' = [NoOut EXCEPT !.op = "select"]
    /\ UNCHANGED << app, now, running, start_time, elapsed_time, update_job,
                    redmine, backup_project, backup, ledger, issues,
                    time_entries, session, backup_session, row_session, tickets,
                    config, config_file, entry_session, redmine_url,
                    connect_returned, after_queue, default_config, shared,
                    file_keys >>

NextRetry == PushSelected \/ SelectOther

SpecRetry == InitRetry /\ [][NextRetry]_vars

(***************************************************************************)
(* The pull alone: sync_time_entries and the ledger's insert (SpecSync),    *)
(* and sync_my_tickets (SpecTickets), called again and again over a remote *)
(* tracker that holds issues and time entries of the user, with any        *)
(* storage fault and any remote call failing.                              *)
(***************************************************************************)
SyncSubjects == { << "x" >>, << "p" >> }
SyncMinutes == { 10, 20 }
SyncDurations == { 900 }

\* The issues of the remote tracker: the n-th has id n and lies in the n-th
\* remote project.
SyncIssue(n, assigned) ==
    [id |-> n, project_id |-> n, subject |-> << "x" >>, assigned_to_me |-> assigned]

SyncIssues ==
    { << SyncIssue(1, a) >> : a \in BOOLEAN }
        \cup { << SyncIssue(1, a), SyncIssue(2, b) >> : a \in BOOLEAN, b \in BOOLEAN }

\* The time entries of the user, all booked on the first issue on day 0.
SyncEntry(minutes) ==
    [issue_id |-> 1, spent_on |-> 0, hours |-> minutes, comments |-> ""]

SyncEntries ==
    UNION { [1..n -> { SyncEntry(m) : m \in SyncMinutes }] : n \in 0..MaxEntries }

InitPull(position, remote_issues, remote_entries) ==
    /\ app = position
    /\ now = 0
    /\ running = FALSE
    /\ start_time = NoTime
    /\ elapsed_time = 0
    /\ update_job = FALSE
    /\ project = <<>>
    /\ work_package = <<>>
    /\ redmine = TRUE
    /\ backup_project = TargetName
    /\ backup = EmptyBackup
    /\ ledger = <<>>
    /\ issues \in remote_issues
    /\ time_entries \in remote_entries
    /\ last = [NoOut EXCEPT !.op = "init"]
    /\ session = NoTime
    /\ backup_session = NoTime
    /\ row_session = <<>>
    /\ tickets = <<>>
    /\ config = ConfiguredConfig
    /\ config_file = ConfiguredConfig
    /\ entry_session = [i \in 1..Len(time_entries) |-> NoTime]
    /\ redmine_url = UrlName
    /\ connect_returned = "true"
    /\ after_queue = 0
    /\ default_config = DefaultObjects
    /\ shared = {}
    /\ file_keys = ObjectKeys

InitSync == InitPull("sync", { << SyncIssue(1, FALSE) >> }, SyncEntries)

InitTickets == InitPull("tickets", SyncIssues, { <<>> })

\* sync_time_entries is called.
SyncPull ==
    /\ app = "sync"
    /\ \E failing \in SUBSET { "time_entry.filter" },
          select_faults \in SUBSET (1..Len(time_entries)),
          insert_faults \in SUBSET (1..Len(time_entries)) :
          LET s == sync_time_entries(St, failing, select_faults, insert_faults)
          IN  /\ Len(s.ledger) <= MaxLedger
              /\ Commit(s, "pull")
    /\ UNCHANGED << app, now >>

\* sync_my_tickets is called.
SyncTickets ==
    /\ app = "tickets"
    /\ \E failing \in SUBSET { "issue.filter" } :
       LET listed == SelectSeq(issues, LAMBDA i : i.assigned_to_me)
       IN  \E select_faults \in SUBSET (1..Len(listed)),
              write_faults \in SUBSET (1..Len(listed)) :
              LET s == sync_my_tickets(St, failing, select_faults, write_faults)
                  hit == IF select_faults \cup write_faults # {} /\ failing = {}
                         THEN { "tickets.storage" } ELSE {}
              IN  Commit([s EXCEPT !.out.failed = @ \cup hit], "tickets")
    /\ UNCHANGED << app, now >>

\* DatabaseManager.record_time_entry is called with any entry.
SyncInsert ==
    /\ app = "sync"
    /\ \E wp \in { WpFix, pulled_row(SyncEntry(10), SyncIssue(1, FALSE)).work_package },
          d \in SyncDurations, storage_fault \in BOOLEAN :
          LET r == db_record_time_entry(ledger, 0, ProjA, wp, d, storage_fault)
              row == [date |-> 0, project |-> ProjA, work_package |-> wp,
                      duration |-> d]
          IN  /\ Len(r.rows) <= MaxLedger
              /\ ledger' = r.rows
              /\ row_session' = IF r.raised THEN row_session
                                ELSE Append(row_session, NoTime)
              /\ last' = [NoOut EXCEPT !.op = "insert",
                                       !.res = IF r.raised THEN "raised" ELSE "ok",
                                       !.calls = << "ledger.insert" >>,
                                       !.args = << row >>,
                                       !.failed = IF storage_fault
                                                  THEN { "ledger.insert" } ELSE {}]
    /\ UNCHANGED << app, now, running, start_time, elapsed_time, update_job,
                    project, work_package, redmine, backup_project, backup,
                    issues, time_entries, session, backup_session, tickets,
                    config, config_file, entry_session, redmine_url,
                    connect_returned, after_queue,
                    default_config, shared, file_keys >>

\* The subject of an issue is changed in the remote tracker.
RemoteEdit ==
    /\ \E i \in 1..Len(issues), subject \in SyncSubjects :
          /\ issues[i].subject # subject
          /\ issues' = [issues EXCEPT ![i].subject = subject]
    /\ last' = [NoOut EXCEPT !.op = "remote_edit"]
    /\ UNCHANGED << app, now, running, start_time, elapsed_time, update_job,
                    project, work_package, redmine, backup_project, backup,
                    ledger, time_entries, session, backup_session, row_session,
                    tickets, config, config_file, entry_session, redmine_url,
                    connect_returned, after_queue,
                    default_config, shared, file_keys >>

\* An issue is assigned to the user, or to somebody else, in the remote
\* tracker: issue.filter(assigned_to_id='me') lists it from now on, or no more.
RemoteAssign ==
    /\ \E i \in 1..Len(issues) :
          issues' = [issues EXCEPT ![i].assigned_to_me = ~@]
    /\ last' = [NoOut EXCEPT !.op = "remote_assign"]
    /\ UNCHANGED << app, now, running, start_time, elapsed_time, update_job,
                    project, work_package, redmine, backup_project, backup,
                    ledger, time_entries, session, backup_session, row_session,
                    tickets, config, config_file, entry_session, redmine_url,
                    connect_returned, after_queue,
                    default_config, shared, file_keys >>

NextSync == SyncPull \/ SyncInsert \/ RemoteEdit

SpecSync == InitSync /\ [][NextSync]_vars

NextTickets == SyncTickets \/ RemoteEdit

SpecTickets == InitTickets /\ [][NextTickets]_vars

\* The ticket cache over a remote tracker whose issues change their subject
\* and their assignee between the pulls.
NextCache == SyncTickets \/ RemoteEdit \/ RemoteAssign

SpecCache == InitTickets /\ [][NextCache]_vars

(***************************************************************************)
(* The login: the program is started again and again from a fresh          *)
(* installation, with any answers to the prompts of connect, and in        *)
(* between the menu synchronises and the manager's refresh is called.      *)
(***************************************************************************)
AnswerKinds == { "no_username", "no_password", "rejected", "accepted" }

\* The answers to MaxAnswers interactive attempts; nothing is entered after
\* a login that was accepted.
AnswerSeqs ==
    { a \in [1..MaxAnswers -> AnswerKinds] :
          \A i \in 1..MaxAnswers :
              a[i] = "accepted" => \A j \in (i + 1)..MaxAnswers : a[j] = "no_username" }

\* What may be answered at a startup over the persisted configuration: a
\* prompt that is not shown has no answer.
Logins ==
    UNION { UNION { { [url |-> url, use_stored |-> use_stored,
                       stored_ok |-> stored_ok, answers |-> answers,
                       store |-> store, chosen |-> chosen,
                       failing_projects |-> failing_projects] :
                          store \in (IF \E i \in 1..Len(answers) : answers[i] = "accepted"
                                     THEN BOOLEAN ELSE { FALSE }),
                          chosen \in (IF Accepts(stored_ok, answers)
                                         /\ config_file.REDMINE_BACKUP_PROJECT = <<>>
                                      THEN { <<>>, TargetName } ELSE { <<>> }),
                          failing_projects \in
                                     (IF Accepts(stored_ok, answers)
                                         /\ ~config_file.REDMINE_CONFIG_UPDATED
                                      THEN { {}, { 1 } } ELSE { {} }) } :
                    stored_ok \in (IF use_stored THEN BOOLEAN ELSE { FALSE }),
                    answers \in AnswerSeqs } :
            url \in (IF config_file.REDMINE_URL = <<>> THEN { <<>>, UrlName }
                     ELSE { <<>> }),
            use_stored \in (IF config_file.REDMINE_CREDENTIALS # <<>> THEN BOOLEAN
                            ELSE { FALSE }) }

InitConnect ==
    /\ app = "down"
    /\ now = 0
    /\ running = FALSE
    /\ start_time = NoTime
    /\ elapsed_time = 0
    /\ update_job = FALSE
    /\ project = <<>>
    /\ work_package = <<>>
    /\ redmine = FALSE
    /\ backup_project = <<>>
    /\ backup = EmptyBackup
    /\ ledger = <<>>
    /\ issues = << SyncIssue(1, TRUE) >>
    /\ time_entries = <<>>
    /\ last = [NoOut EXCEPT !.op = "init"]
    /\ session = NoTime
    /\ backup_session = NoTime
    /\ row_session = <<>>
    /\ tickets = <<>>
    /\ config = DEFAULT_CONFIG
    /\ config_file = DEFAULT_CONFIG
    /\ entry_session = <<>>
    /\ redmine_url = <<>>
    /\ connect_returned = "none"
    /\ after_queue = 0
    /\ default_config = DefaultObjects
    /\ shared = {}
    /\ file_keys = ObjectKeys

StartupConnect == StartupWith(Logins, { { "project.all" }, { "user.get" } })

\* RedmineManager.update_config_with_projects_and_tickets is called.
RefreshCall ==
    /\ app = "up"
    /\ \E failing \in { {}, { "project.all" } }, failing_projects \in { {}, { 1 } } :
          Commit(update_config_with_projects_and_tickets(St, failing, failing_projects),
                 "refresh")
    /\ UNCHANGED << app, now >>

\* The menu synchronises over a remote tracker that may refuse.
SyncConnect == SyncWith({ {}, { "issue.filter" }, { "time_entry.filter" }, PullApis })

NextConnect ==
    \/ StartupConnect
    \/ SyncConnect
    \/ RefreshCall
    \/ RemoteEdit
    \/ OnClose
    \/ Crash

SpecConnect == InitConnect /\ [][NextConnect]_vars


(***************************************************************************)
(* The target of the push: the program is started from a fresh             *)
(* installation, the backup project is chosen at the first start or        *)
(* changed from the menu, and create_time_entry is called in between.      *)
(***************************************************************************)
\* The logins in which every prompt is cancelled or the first answer is
\* accepted.
TargetLogins ==
    { l \in Logins : \/ l.answers[1] = "accepted"
                      \/ \A i \in 1..Len(l.answers) : l.answers[i] = "no_username" }

StartupTarget == StartupWith(TargetLogins, {})

\* Menu "Backup-Projekt aendern"
ChangeBackupProject ==
    /\ app = "up"
    /\ \E chosen \in { <<>> } \cup { remote_projects[i].name : i \in 1..Len(remote_projects) },
          failing \in { {}, { "project.all" } } :
          Commit(change_backup_project(St, chosen, failing), "change_backup_project")
    /\ UNCHANGED << app, now >>

\* create_time_entry is called by the running program.
PushNow ==
    /\ app = "up"
    /\ LET r == create_time_entry(St, ProjA, WpFix, 900, date_of(now), {})
       IN  /\ Len(r.issues) <= MaxIssues
           /\ Len(r.time_entries) <= MaxEntries
           /\ issues' = r.issues
           /\ time_entries' = r.time_entries
           /\ entry_session' = IF Len(r.time_entries) > Len(time_entries)
                               THEN Append(entry_session, NoTime)
                               ELSE entry_session
           /\ last' = [op |-> "push", res |-> "", calls |-> r.calls,
                       failed |-> r.failed, ret |-> r.ret, args |-> <<>>]
    /\ UNCHANGED << app, now, running, start_time, elapsed_time, update_job,
                    project, work_package, redmine, backup_project, backup,
                    ledger, session, backup_session, row_session, tickets,
                    config, config_file, redmine_url, connect_returned,
                    after_queue,
                    default_config, shared, file_keys >>

NextTarget ==
    \/ StartupTarget
    \/ ChangeBackupProject
    \/ PushNow
    \/ Crash

SpecTarget == InitConnect /\ [][NextTarget]_vars

(***************************************************************************)
(* The timer step by step: the handlers of the buttons and of the window,  *)
(* each named in the history, the callback of update_timer as a step of    *)
(* its own, and the close prompt by the button pressed.                    *)
(***************************************************************************)
CloseButtons == { "Speichern", "Verwerfen", "Abbrechen", "WM_DELETE_WINDOW" }

\* ClosePromptDialog.result after the button: choose_save, choose_discard,
\* choose_cancel and on_close
close_prompt_result(button) ==
    CASE button = "Speichern" -> "speichern"
      [] button = "Verwerfen" -> "verwerfen"
      [] button = "Abbrechen" -> "abbrechen"
      [] OTHER -> "abbrechen"

\* Button "Start"
StartCall ==
    /\ app = "up"
    /\ Commit(start_timer(St, now), "start")
    /\ UNCHANGED << app, now >>

\* Button "Pause"
PauseCall ==
    /\ app = "up"
    /\ Commit(pause_timer(St, now), "pause")
    /\ UNCHANGED << app, now >>

\* A callback scheduled by update_timer leaves the after queue and runs.
TimerFires ==
    /\ app = "up"
    /\ after_queue > 0
    /\ Commit(update_timer([St EXCEPT !.after_queue = @ - 1]), "tick")
    /\ UNCHANGED << app, now >>

\* WM_DELETE_WINDOW of the main window.  The prompt is shown while the timer
\* runs or holds time; without it no button is pressed ("none").
CloseCall ==
    /\ app = "up"
    /\ \E button \in (IF running \/ elapsed_time > 0 THEN CloseButtons ELSE { "none" }) :
       LET choice == close_prompt_result(button)
       IN  \E storage_fault \in Faults(choice = "speichern" /\ Validates(St, now)),
              failing \in Failures(choice = "speichern" /\ Validates(St, now) /\ redmine) :
              LET s == on_close(St, now, choice, storage_fault, failing)
              IN  /\ Fits(s)
                  /\ IF s.out.res = "open"
                     THEN Commit(s, "close_" \o button) /\ app' = "up"
                     ELSE Commit(Down(s), "close_" \o button) /\ app' = "down"
    /\ UNCHANGED now

NextTimer ==
    \/ Tick
    \/ Startup
    \/ StartCall
    \/ PauseCall
    \/ TimerFires
    \/ AutoBackup
    \/ RecordTime
    \/ SelectProject
    \/ CloseCall
    \/ Crash

SpecTimer == Init /\ [][NextTimer]_vars

(***************************************************************************)
(* The refresh alone: update_config_with_projects_and_tickets called again *)
(* and again on a connected manager, over a remote tracker whose issues    *)
(* come and go, with the flag REDMINE_CONFIG_UPDATED cleared in between.   *)
(***************************************************************************)
\* The issues of the remote tracker: the n-th has id n and lies in the first
\* remote project.
CatalogIssue(n, subject) ==
    [id |-> n, project_id |-> 1, subject |-> subject, assigned_to_me |-> FALSE]

CatalogIssues ==
    UNION { { [i \in 1..n |-> CatalogIssue(i, subjects[i])] :
                  subjects \in [1..n -> SyncSubjects] } : n \in 0..MaxIssues }

\* Catalogs written by hand or by an earlier refresh, with and without a
\* backup project.
CatalogConfigs ==
    { [ConfiguredConfig EXCEPT !.REDMINE_CONFIG_UPDATED = FALSE,
                               !.REDMINE_BACKUP_PROJECT = b,
                               !.work_packages = w] :
          b \in { << >>, TargetName },
          w \in { << >>, (ProjA :> << WpFix >>),
                  (ProjA :> << WpFix >>) @@ (ProjB :> << << "7" >> >>) } }

InitCatalog ==
    /\ app = "up"
    /\ now = 0
    /\ running = FALSE
    /\ start_time = NoTime
    /\ elapsed_time = 0
    /\ update_job = FALSE
    /\ project = <<>>
    /\ work_package = <<>>
    /\ redmine = TRUE
    /\ config \in CatalogConfigs
    /\ backup_project = config.REDMINE_BACKUP_PROJECT
    /\ backup = EmptyBackup
    /\ ledger = <<>>
    /\ issues = <<>>
    /\ time_entries = <<>>
    /\ last = [NoOut EXCEPT !.op = "init"]
    /\ session = NoTime
    /\ backup_session = NoTime
    /\ row_session = <<>>
    /\ tickets = <<>>
    /\ config_file = config
    /\ entry_session = <<>>
    /\ redmine_url = UrlName
    /\ connect_returned = "true"
    /\ after_queue = 0
    /\ default_config = DefaultObjects
    /\ shared = {}
    /\ file_keys = ObjectKeys

\* config.yaml is edited between two runs: the flag is cleared.
FlagCleared ==
    /\ config.REDMINE_CONFIG_UPDATED
    /\ config' = [config EXCEPT !.REDMINE_CONFIG_UPDATED = FALSE]
    /\ config_file' = [config_file EXCEPT !.REDMINE_CONFIG_UPDATED = FALSE]
    /\ last' = [NoOut EXCEPT !.op = "flag_cleared"]
    /\ UNCHANGED << app, now, running, start_time, elapsed_time, update_job,
                    project, work_package, redmine, backup_project, backup,
                    ledger, issues, time_entries, session, backup_session,
                    row_session, tickets, entry_session, redmine_url,
                    connect_returned, after_queue,
                    default_config, shared, file_keys >>

\* Issues are created, closed and renamed in the remote tracker.
RemoteChange ==
    /\ \E iss \in CatalogIssues :
          /\ iss # issues
          /\ issues' = iss
    /\ last' = [NoOut EXCEPT !.op = "remote_change"]
    /\ UNCHANGED << app, now, running, start_time, elapsed_time, update_job,
                    project, work_package, redmine, backup_project, backup,
                    ledger, time_entries, session, backup_session, row_session,
                    tickets, config, config_file, entry_session, redmine_url,
                    connect_returned, after_queue,
                    default_config, shared, file_keys >>

NextCatalog == RefreshCall \/ FlagCleared \/ RemoteChange

SpecCatalog == InitCatalog /\ [][NextCatalog]_vars

(***************************************************************************)
(* The rounding: create_time_entry is given a duration of whole seconds,   *)
(* and sync_time_entries pulls the time entry it made or one booked in the *)
(* remote tracker by hand.                                                 *)
(***************************************************************************)
\* The durations pushed, in seconds, and the hours booked by hand, in minutes
RoundDurations == 1..(900 * MaxQuarters + 1)
RoundMinutes == 1..(15 * MaxQuarters + 1)

InitRound ==
    /\ app = "round"
    /\ now = 0
    /\ running = FALSE
    /\ start_time = NoTime
    /\ \/ /\ elapsed_time \in RoundDurations
          /\ issues = <<>>
          /\ time_entries = <<>>
       \/ /\ elapsed_time = 0
          /\ issues = << SyncIssue(1, FALSE) >>
          /\ time_entries \in { << SyncEntry(m) >> : m \in RoundMinutes }
    /\ update_job = FALSE
    /\ project = <<>>
    /\ work_package = <<>>
    /\ redmine = TRUE
    /\ backup_project = TargetName
    /\ backup = EmptyBackup
    /\ ledger = <<>>
    /\ last = [NoOut EXCEPT !.op = "init"]
    /\ session = NoTime
    /\ backup_session = NoTime
    /\ row_session = <<>>
    /\ tickets = <<>>
    /\ config = ConfiguredConfig
    /\ config_file = ConfiguredConfig
    /\ entry_session = [i \in 1..Len(time_entries) |-> NoTime]
    /\ redmine_url = UrlName
    /\ connect_returned = "true"
    /\ after_queue = 0
    /\ default_config = DefaultObjects
    /\ shared = {}
    /\ file_keys = ObjectKeys

\* create_time_entry is called with the duration elapsed_time.
RoundPush ==
    /\ app = "round"
    /\ elapsed_time > 0
    /\ time_entries = <<>>
    /\ LET r == create_time_entry(St, ProjA, WpFix, elapsed_time, date_of(now), {})
       IN  /\ issues' = r.issues
           /\ time_entries' = r.time_entries
           /\ entry_session' = [i \in 1..Len(r.time_entries) |-> NoTime]
           /\ last' = [NoOut EXCEPT !.op = "push", !.calls = r.calls,
                                    !.failed = r.failed, !.ret = r.ret]
    /\ UNCHANGED << app, now, running, start_time, elapsed_time, update_job,
                    project, work_package, redmine, backup_project, backup,
                    ledger, session, backup_session, row_session, tickets,
                    config, config_file, redmine_url, connect_returned,
                    after_queue,
                    default_config, shared, file_keys >>

\* sync_time_entries is called.
RoundPull ==
    /\ app = "round"
    /\ time_entries # <<>>
    /\ Commit(sync_time_entries(St, {}, {}, {}), "pull")
    /\ UNCHANGED << app, now >>

NextRound == RoundPush \/ RoundPull

SpecRound == InitRound /\ [][NextRound]_vars

(***************************************************************************)
(* The ledger over the life of an installation: records, pushes, pulls,    *)
(* kills and recoveries, and the menu entry that resets the program.       *)
(***************************************************************************)
\* Menu "App zuruecksetzen"
ResetApp ==
    /\ app = "up"
    /\ \E confirmed \in BOOLEAN :
          LET s == reset_app(St, confirmed)
          IN  IF s.out.res = "reset"
              THEN Commit(Down(s), "reset_app") /\ app' = "down"
              ELSE Commit(s, "reset_app") /\ app' = "up"
    /\ UNCHANGED now

NextLedger ==
    \/ TickOnline
    \/ StartupOnline
    \/ StartTimer
    \/ PauseTimer
    \/ AutoBackup
    \/ RecordTime
    \/ RecordTimeKilled
    \/ SyncNow
    \/ ResetApp

SpecLedger == Init /\ [][NextLedger]_vars

(***************************************************************************)
(* The defaults: the program is started on an installation without a       *)
(* config.yaml, or with one that lacks keys, projects are added, the       *)
(* catalog is refreshed at the start, and the program is reset.            *)
(***************************************************************************)
NewProject == << "N" >>

InitDefaults ==
    /\ app = "down"
    /\ now = 0
    /\ running = FALSE
    /\ start_time = NoTime
    /\ elapsed_time = 0
    /\ update_job = FALSE
    /\ project = <<>>
    /\ work_package = <<>>
    /\ redmine = FALSE
    /\ backup_project = <<>>
    /\ backup = EmptyBackup
    /\ ledger = <<>>
    /\ issues = << SyncIssue(1, TRUE) >>
    /\ time_entries = <<>>
    /\ last = [NoOut EXCEPT !.op = "init"]
    /\ session = NoTime
    /\ backup_session = NoTime
    /\ row_session = <<>>
    /\ tickets = <<>>
    /\ config = DEFAULT_CONFIG
    /\ config_file = DEFAULT_CONFIG
    /\ entry_session = <<>>
    /\ redmine_url = <<>>
    /\ connect_returned = "none"
    /\ after_queue = 0
    /\ default_config = DefaultObjects
    /\ shared = {}
    /\ file_keys \in SUBSET ObjectKeys

\* "Projekte verwalten", button "Hinzufuegen"
AddProject ==
    /\ app = "up"
    /\ Commit(add_project(St, NewProject), "add_project")
    /\ UNCHANGED << app, now >>

NextDefaults ==
    \/ StartupTarget
    \/ AddProject
    \/ ResetApp
    \/ Crash

SpecDefaults == InitDefaults /\ [][NextDefaults]_vars

(***************************************************************************)
(* The URL: the program is started, connected or not, and the URL of the   *)
(* remote tracker is changed from the menu, with any answers to the        *)
(* prompts.                                                                *)
(***************************************************************************)
NewUrl == << "h", "h" >>

\* A login that is accepted at once, one that is rejected max_attempts
\* times, and one in which every prompt is cancelled.
UrlLogins ==
    { LoginAccepted, LoginCancelled,
      [LoginCancelled EXCEPT !.answers = [i \in 1..max_attempts |-> "rejected"]] }

UrlRounds ==
    UNION { [1..n -> [url : { <<>>, NewUrl }, login : UrlLogins]] : n \in 0..2 }

\* Menu "Redmine URL aendern"
ChangeRedmineUrl ==
    /\ app = "up"
    /\ \E rounds \in UrlRounds, failing \in { {}, { "project.all" } } :
          Commit(change_redmine_url(St, rounds, failing), "change_redmine_url")
    /\ UNCHANGED << app, now >>

NextUrl ==
    \/ StartupTarget
    \/ ChangeRedmineUrl
    \/ AddProject
    \/ Crash

SpecUrl == InitConnect /\ [][NextUrl]_vars

(***************************************************************************)
(* Properties of the timer, the snapshot and the ledger.                   *)
(***************************************************************************)
\* The elapsed time with the running period that is under way.
CurrentElapsed ==
    IF running THEN elapsed_time + (Time(now) - start_time) ELSE elapsed_time

\* The snapshot of the timer as it stands.
CurrentSnapshot ==
    [elapsed_time |-> CurrentElapsed, project |-> project,
     work_package |-> work_package]

\* C1: at every checkpoint, running or paused, when the elapsed time with
\* the running period under way is above zero, the snapshot is overwritten
\* with that time and the selected project and work package.
C1_CheckpointWritesSnapshot ==
    [][ last'.op = "auto_backup" /\ CurrentElapsed > 0
        => backup' = CurrentSnapshot ]_vars

ValidationFailed == last'.op = "record" /\ last'.res \in { "no_time", "no_selection" }

\* C2 as stated: a record that fails its validation leaves the timer (running
\* flag, start reference, elapsed time, pending tick), the snapshot and the
\* ledger as they were, also when the timer was running.
C2_ValidationTouchesNothing ==
    [][ ValidationFailed
        => UNCHANGED << running, start_time, elapsed_time, update_job, backup,
                        ledger >> ]_vars

\* C2 amended: a record that fails its validation leaves the snapshot, the
\* ledger, the remote tracker and the selection as they were and does not
\* reset the elapsed time; a timer that was not running is left as it was,
\* and a running timer is paused: stopped, its tick cancelled and the
\* running period added to the elapsed time.
C2_ValidationOnlyPauses ==
    [][ ValidationFailed
        => /\ UNCHANGED << backup, ledger, issues, time_entries, project,
                           work_package, start_time >>
           /\ running' = FALSE
           /\ update_job' = FALSE
           /\ elapsed_time' = CurrentElapsed
           /\ (~running => UNCHANGED << running, elapsed_time, update_job >>) ]_vars

\* A running timer with time on it was recorded without a work package.
C2_Witness ==
    /\ last.op = "record"
    /\ last.res = "no_selection"
    /\ last.calls = << "pause_timer" >>
    /\ elapsed_time > 0

\* C3: when the ledger write of record fails, the elapsed time keeps its
\* value and the snapshot is not cleared.
C3_FailedWriteKeepsTimer ==
    [][ last'.op = "record" /\ last'.res = "save_failed"
        => elapsed_time' = CurrentElapsed /\ backup' = backup ]_vars

\* The row a record writes in the state before it.
RecordedRow ==
    [date |-> date_of(now), project |-> Strip(project),
     work_package |-> Strip(work_package), duration |-> CurrentElapsed]

\* C4: a successful record adds exactly one ledger row (today, project, work
\* package, elapsed time), resets the elapsed time to 0 with the timer not
\* running, and leaves the snapshot empty.
C4_SuccessfulRecord ==
    [][ last'.op = "record" /\ last'.res = "saved"
        => /\ CurrentElapsed > 0
           /\ ledger' = Append(ledger, RecordedRow)
           /\ elapsed_time' = 0
           /\ running' = FALSE
           /\ update_job' = FALSE
           /\ backup' = EmptyBackup ]_vars

\* A record succeeded on a running timer.
C4_Witness ==
    /\ last.op = "record"
    /\ last.res = "saved"
    /\ "pause_timer" \in Range(last.calls)
    /\ Len(ledger) = 1
    /\ ledger[1].duration > 0

\* C5: with a stored snapshot of elapsed time e > 0, project p and work
\* package w, a startup that resumes leaves the timer not running with
\* elapsed time e and selection p, w, and writes no ledger row.
C5_ResumeRestores ==
    [][ last'.op = "startup_fortsetzen"
        => /\ backup.elapsed_time > 0
           /\ running' = FALSE
           /\ update_job' = FALSE
           /\ elapsed_time' = backup.elapsed_time
           /\ project' = backup.project
           /\ work_package' = backup.work_package
           /\ ledger' = ledger ]_vars

\* A startup resumed a snapshot taken with the second project selected.
C5_Witness ==
    /\ last.op = "startup_fortsetzen"
    /\ elapsed_time > 0
    /\ project = ProjB
    /\ ~running

\* C6: whatever the point at which the process is killed and whatever is
\* chosen at the startups after it, the elapsed work of one timing session
\* is in at most one ledger row.
C6_NoDoubleCounting ==
    \A i, j \in 1..Len(row_session) :
        i # j => row_session[i] # row_session[j]

(***************************************************************************)
(* Properties of the push.                                                 *)
(***************************************************************************)
\* The number of calls of api in a sequence of calls.
Count(calls, api) == Cardinality({ i \in 1..Len(calls) : calls[i] = api })

\* The time entries the step has added to the remote tracker.
Submitted == Len(time_entries') - Len(time_entries)

\* C7 as stated: every call on a connected manager with a configured target
\* project submits exactly one time entry to the remote tracker: it calls
\* time_entry.create once.
C7_AlwaysOneSubmission ==
    [][ last'.op = "push" /\ redmine /\ backup_project # <<>>
        => Count(last'.calls, "time_entry.create") = 1 ]_vars

\* C7 amended: a call never submits two time entries; it submits exactly
\* one, to the issue it returns, when the manager is connected, the target
\* project exists in the remote tracker and no remote call it makes raises,
\* whether the issue existed or had to be created; and it submits none when
\* the target project is not found or a call other than the issue lookup
\* raises.
C7_OneSubmissionUnlessFailed ==
    [][ last'.op = "push"
        => /\ Submitted \in { 0, 1 }
           /\ Count(last'.calls, "time_entry.create") <= 1
           /\ SubSeq(time_entries', 1, Len(time_entries)) = time_entries
           /\ ( /\ redmine
                /\ \E i \in 1..Len(remote_projects) :
                      remote_projects[i].name = backup_project
                /\ last'.failed = {}
                => /\ Submitted = 1
                   /\ Count(last'.calls, "time_entry.create") = 1
                   /\ last'.ret # NoId
                   /\ time_entries'[Len(time_entries')].issue_id = last'.ret )
           /\ ( \/ ~redmine
                \/ \A i \in 1..Len(remote_projects) :
                      remote_projects[i].name # backup_project
                \/ last'.failed \ { "issue.filter" } # {}
                => Submitted = 0 ) ]_vars

\* A second call without a failure has sent its time entry to the issue the
\* first call created.
C7_Witness ==
    /\ last.op = "push"
    /\ last.failed = {}
    /\ Len(issues) = 1
    /\ Len(time_entries) = 2
    /\ time_entries[1].comments = "Erster Zeiteintrag"
    /\ time_entries[2].comments = "Zusaetzlicher Zeiteintrag"
    /\ time_entries[2].issue_id = last.ret

\* C8: a failure at the issue lookup, the issue creation or the time entry
\* submission makes the call return None, and nothing is called in the
\* remote tracker after the call that failed.
C8_FailureReturnsNone ==
    [][ /\ last'.op = "push"
        /\ last'.failed \cap { "issue.filter", "issue.create", "time_entry.create" } # {}
        => /\ last'.ret = NoId
           /\ last'.calls[Len(last'.calls)] \in last'.failed ]_vars

\* C9: the issues of a project have different subjects, so calls that derive
\* the same subject send their time entries to the same issue.
C9_OneIssuePerSubject ==
    \A i, j \in 1..Len(issues) :
        issues[i].project_id = issues[j].project_id
        /\ issues[i].subject = issues[j].subject
        => i = j

(***************************************************************************)
(* The order of the ledger write and the push.                             *)
(***************************************************************************)
\* The place of the first call of api in a sequence of calls, 0 without one.
FirstCall(calls, api) ==
    IF \E i \in 1..Len(calls) : calls[i] = api
    THEN CHOOSE i \in 1..Len(calls) :
             calls[i] = api /\ \A j \in 1..(i - 1) : calls[j] # api
    ELSE 0

\* C10: in a record, also one cut short by a kill, the ledger write comes
\* before every remote call; the row is written whether or not the manager
\* is connected and whatever the push does; and nothing else in the ledger
\* changes.
C10_LocalFirst ==
    [][ last'.op \in { "record", "record_killed" }
        => LET calls == last'.calls
               ins   == FirstCall(calls, "ledger.insert")
           IN  /\ \A i \in 1..Len(calls) :
                      calls[i] \in RemoteApis => ins # 0 /\ ins < i
               /\ (issues' # issues \/ time_entries' # time_entries) => ins # 0
               /\ ins # 0 /\ "ledger.insert" \notin last'.failed
                  => ledger' = Append(ledger, RecordedRow)
               /\ ins = 0 \/ "ledger.insert" \in last'.failed
                  => ledger' = ledger ]_vars

\* A record wrote its row, and the push after it failed at the submission of
\* the time entry.
C10_Witness ==
    /\ last.op = "record"
    /\ last.res = "saved"
    /\ last.calls[1] = "ledger.insert"
    /\ last.failed = { "time_entry.create" }
    /\ Len(ledger) = 1
    /\ time_entries = <<>>

(***************************************************************************)
(* C11.  The time-entry pull is idempotent: when sync_time_entries has     *)
(* run without a failure and runs again over the same remote data, the     *)
(* second run leaves the ledger with the rows of the first (whatever       *)
(* fails during the second run).                                           *)
(***************************************************************************)
C11_PullIdempotent ==
    [][ (last.op = "pull" /\ last.failed = {} /\ last'.op = "pull")
            => ledger' = ledger ]_vars

\* The row the pull makes of the i-th remote time entry.
RowOfEntry(i) ==
    pulled_row(time_entries[i],
               SelectSeq(issues, LAMBDA x : x.id = time_entries[i].issue_id)[1])

\* A pull listed remote entries and found each of them in the ledger.
C11_Witness ==
    /\ last.op = "pull"
    /\ Count(last.calls, "ledger.insert") = 0
    /\ last.failed = {}
    /\ time_entries # <<>>
    /\ \A i \in 1..Len(time_entries) :
           \E j \in 1..Len(ledger) : ledger[j] = RowOfEntry(i)

(***************************************************************************)
(* C12.  The pull loses no remote entry: after a pull in which nothing     *)
(* fails the ledger holds a row of its own for every remote time entry of  *)
(* the user, also for entries that share date, issue and rounded hours.    *)
(***************************************************************************)
\* The rows of a ledger that equal row.
RowsEqual(rows, row) == { j \in 1..Len(rows) : rows[j] = row }

\* The remote time entries the pull makes into row.
EntriesOf(row) == { k \in 1..Len(time_entries) : RowOfEntry(k) = row }

C12_PullLosesNothing ==
    [][ (last'.op = "pull" /\ last'.failed = {})
            => \A i \in 1..Len(time_entries) :
                   Cardinality(RowsEqual(ledger', RowOfEntry(i)))
                       >= Cardinality(EntriesOf(RowOfEntry(i))) ]_vars

(***************************************************************************)
(* C14.  The ticket pull is idempotent.  The cache never holds two rows    *)
(* with one ticket_id, whatever fails.  After a sync_my_tickets in which   *)
(* nothing fails, the cache holds for every issue assigned to the user     *)
(* exactly one row, with the remote values of this pull; the pull adds     *)
(* one row for each issue listed that had none, and no other; and a        *)
(* second such pull over the same remote state changes nothing.            *)
(***************************************************************************)
\* The issues of the remote tracker assigned to the user.
Assigned == { i \in 1..Len(issues) : issues[i].assigned_to_me }

\* The rows of the ticket cache for ticket_id.
TicketRows(rows, ticket_id) == { j \in 1..Len(rows) : rows[j].ticket_id = ticket_id }

C14_TicketPullIdempotent ==
    [][ /\ \A j, k \in 1..Len(tickets') :
               tickets'[j].ticket_id = tickets'[k].ticket_id => j = k
        /\ (last'.op = "tickets" /\ last'.failed = {})
            => /\ \A i \in Assigned :
                      /\ Cardinality(TicketRows(tickets', issues[i].id)) = 1
                      /\ \A j \in TicketRows(tickets', issues[i].id) :
                             /\ tickets'[j].subject = issues[i].subject
                             /\ tickets'[j].project = project_name(issues[i].project_id)
                             /\ tickets'[j].user = config'.REDMINE_USER
               /\ Len(tickets') = Len(tickets)
                      + Cardinality({ i \in Assigned :
                                          TicketRows(tickets, issues[i].id) = {} })
               /\ (last.op = "tickets" /\ last.failed = {} => tickets' = tickets)
       ]_vars

\* A ticket pull in which nothing failed has replaced the cached subject of
\* a ticket by the subject the issue has now.
C14_Witness ==
    /\ last.op = "tickets"
    /\ last.failed = {}
    /\ \E i \in Assigned :
           /\ issues[i].subject = << "p" >>
           /\ \E j \in 1..Len(tickets) :
                  tickets[j].ticket_id = issues[i].id /\ tickets[j].subject = << "p" >>
    /\ Len(tickets) = Cardinality(Assigned)

C13_PullStoresNoRecordedWork ==
    [][ last'.op = "sync"
            => \A k \in (Len(row_session) + 1)..Len(row_session') :
                   \A j \in 1..Len(row_session) :
                       row_session[j] # row_session'[k] ]_vars

(***************************************************************************)
(* C15.  Ledger uniqueness: in every reachable state, after any sequence   *)
(* of records, pulls, kills and recoveries, no two rows of the ledger hold *)
(* the same (date, project, work_package, duration).                       *)
(***************************************************************************)
C15_LedgerUnique ==
    \A i, j \in 1..Len(ledger) : ledger[i] = ledger[j] => i = j

\* A pull has stored a row next to a row that was there.
C15_Witness ==
    /\ last.op = "sync"
    /\ Count(last.calls, "ledger.insert") = 1
    /\ "ledger.insert" \notin last.failed
    /\ Len(ledger) = 2

(***************************************************************************)
(* C17.  After connect has used up its attempts and returned False, the    *)
(* pulls and refreshes of the session return without a call to the remote  *)
(* tracker.                                                                *)
(***************************************************************************)
C17_FailedConnectContactsNothing ==
    [][ connect_returned' = "false" /\ last'.op \in { "sync", "refresh" }
            => last'.calls = <<>> ]_vars

(***************************************************************************)
(* C18.  connect terminates after at most 3 interactive attempts: every    *)
(* startup gets through connect with True or False; it asks for the user   *)
(* name at most max_attempts = 3 times; it tries no login it was not given *)
(* the credentials for; with a URL configured it returns False exactly     *)
(* when 3 attempts failed (cancelled at the user name, cancelled at the    *)
(* password, or rejected), and True after fewer than 3 failed attempts.    *)
(***************************************************************************)
C18_AtMostThreeAttempts ==
    [][ app = "down" /\ app' # "down"
            => LET asked  == Count(last'.calls, "ask.username")
                   stored == Count(last'.calls, "ask.use_stored")
                   logins == Count(last'.calls, "login")
                   agreed == Count(last'.calls, "ask.store")
               IN  /\ app' = "up"
                   /\ connect_returned' \in { "true", "false" }
                   /\ asked <= max_attempts
                   /\ logins <= asked + stored
                   /\ connect_returned' = "false" /\ redmine_url' # <<>>
                          => asked = max_attempts /\ agreed = 0
                   /\ connect_returned' = "true"
                          => agreed <= 1 /\ asked - agreed < max_attempts ]_vars

\* connect returned False after a cancelled prompt and a rejected login
\* among its 3 attempts.
C18_Witness ==
    /\ app = "up"
    /\ last.op = "startup_none"
    /\ connect_returned = "false"
    /\ Count(last.calls, "ask.username") = 3
    /\ Count(last.calls, "login") \in 1..2
    /\ "login" \in last.failed

(***************************************************************************)
(* C19.  Stored credentials survive a restart: when the program is closed, *)
(* the credentials the configuration holds in memory (those loaded, or     *)
(* those entered and stored with the user's consent) are in the persisted  *)
(* configuration.                                                          *)
(***************************************************************************)
C19_StoredCredentialsPersisted ==
    [][ last'.op = "closed" /\ config.REDMINE_CREDENTIALS # <<>>
            => config_file'.REDMINE_CREDENTIALS = config.REDMINE_CREDENTIALS ]_vars

(***************************************************************************)
(* C20.  The refresh of the catalog is one-shot.  With the flag            *)
(* REDMINE_CONFIG_UPDATED set, update_config_with_projects_and_tickets     *)
(* makes no remote call and leaves the configuration, in memory and        *)
(* persisted, as it is, and a startup leaves the catalog as it is.  A      *)
(* refresh that gets the list of projects sets the flag and persists the   *)
(* configuration, whose catalog then holds every project listed but the    *)
(* backup project, with the tickets listed for it.  No startup, refresh,   *)
(* synchronisation, close or kill clears the persisted flag.               *)
(***************************************************************************)
\* The tickets the remote tracker lists for its i-th project.
ListedTickets(i) == ticket_list(issues, remote_projects[i].id)

C20_RefreshOneShot ==
    [][ /\ last'.op = "refresh" /\ config_file.REDMINE_CONFIG_UPDATED
            => /\ last'.calls = <<>>
               /\ config' = config
               /\ config_file' = config_file
        /\ app = "down" /\ app' = "up" /\ config_file.REDMINE_CONFIG_UPDATED
            => /\ config'.projects = config_file.projects
               /\ config'.work_packages = config_file.work_packages
        /\ (/\ last'.op = "refresh"
            /\ ~config.REDMINE_CONFIG_UPDATED
            /\ Count(last'.calls, "project.all") = 1
            /\ last'.failed = {})
            => /\ config'.REDMINE_CONFIG_UPDATED
               /\ config_file' = config'
               /\ \A i \in 1..Len(remote_projects) :
                      remote_projects[i].name # config.REDMINE_BACKUP_PROJECT
                          => /\ remote_projects[i].name \in Range(config'.projects)
                             /\ ListedTickets(i) \subseteq
                                    Range(config'.work_packages[remote_projects[i].name])
        /\ config_file.REDMINE_CONFIG_UPDATED => config_file'.REDMINE_CONFIG_UPDATED
      ]_vars

\* A refresh found the flag set while the remote tracker lists a ticket the
\* catalog does not hold, and did nothing.
C20_Witness ==
    /\ last.op = "refresh"
    /\ last.calls = <<>>
    /\ redmine
    /\ config_file.REDMINE_CONFIG_UPDATED
    /\ \E i \in 1..Len(remote_projects) :
           /\ remote_projects[i].name # config.REDMINE_BACKUP_PROJECT
           /\ ~(ListedTickets(i) \subseteq
                    Range(Get(config.work_packages, remote_projects[i].name, << >>)))

(***************************************************************************)
(* C21.  The refresh of the catalog only adds.  Every project and every    *)
(* work package of the catalog before a call of the refresh is in the      *)
(* catalog after it; a call adds nothing but tickets the remote tracker    *)
(* lists; and after a call that listed every project, the work packages of *)
(* each project but the backup project are those it had before together    *)
(* with the "<id>: <subject>" of the issues listed for it, also when       *)
(* the remote tracker no longer lists a ticket the catalog holds.          *)
(***************************************************************************)
\* The work packages the catalog cat holds for the project named n.
CatalogOf(cat, n) == Range(Get(cat.work_packages, n, << >>))

C21_RefreshAdditive ==
    [][ last'.op = "refresh"
            => /\ Range(config.projects) \subseteq Range(config'.projects)
               /\ DOMAIN config.work_packages \subseteq DOMAIN config'.work_packages
               /\ \A n \in DOMAIN config.work_packages :
                      CatalogOf(config, n) \subseteq CatalogOf(config', n)
               /\ \A i \in 1..Len(remote_projects) :
                      CatalogOf(config', remote_projects[i].name)
                          \subseteq CatalogOf(config, remote_projects[i].name)
                                        \cup ListedTickets(i)
               /\ (Count(last'.calls, "project.all") = 1 /\ last'.failed = {})
                      => \A i \in 1..Len(remote_projects) :
                             remote_projects[i].name # config.REDMINE_BACKUP_PROJECT
                                 => CatalogOf(config', remote_projects[i].name)
                                        = CatalogOf(config, remote_projects[i].name)
                                              \cup ListedTickets(i) ]_vars

\* After a second refresh the catalog of the first project holds the ticket
\* of an issue the remote tracker no longer lists next to one it lists now.
C21_Witness ==
    /\ last.op = "refresh"
    /\ Count(last.calls, "issue.filter") >= 1
    /\ last.failed = {}
    /\ \E old \in CatalogOf(config, ProjA) \ ListedTickets(1) :
           /\ old # WpFix
           /\ old # << "7" >>
    /\ ListedTickets(1) # {}
    /\ ListedTickets(1) \subseteq CatalogOf(config, ProjA)

(***************************************************************************)
(* C22.  The refresh never adds the backup project to the catalog: when a  *)
(* startup has completed, also a first start in which the backup project   *)
(* is chosen, the project configured as backup project is not among the    *)
(* projects and work-package lists the startup has added to the catalog.   *)
(***************************************************************************)
C22_RefreshSkipsBackupProject ==
    [][ (app = "down" /\ app' = "up" /\ config'.REDMINE_BACKUP_PROJECT # << >>)
            => LET b == config'.REDMINE_BACKUP_PROJECT
               IN  /\ b \in Range(config'.projects) => b \in Range(config_file.projects)
                   /\ b \in DOMAIN config'.work_packages
                          => b \in DOMAIN config_file.work_packages ]_vars

(***************************************************************************)
(* C23.  Shutdown gating.  When the window is closed while the timer runs  *)
(* or holds time, the window is destroyed only when the user pressed       *)
(* "Speichern" or "Verwerfen"; when the prompt is cancelled or dismissed,  *)
(* the window stays and running flag, start reference, elapsed time,       *)
(* pending tick, selection, snapshot and ledger are as they were.  Without *)
(* time on the timer the window is destroyed without a prompt.             *)
(***************************************************************************)
CloseOps == { "close_" \o b : b \in CloseButtons \cup { "none" } }

C23_ShutdownGating ==
    [][ last'.op \in CloseOps
            => /\ (last'.op = "close_none") = ~(running \/ elapsed_time > 0)
               /\ last'.op \in { "close_Abbrechen", "close_WM_DELETE_WINDOW" }
                      => /\ app' = "up"
                         /\ UNCHANGED << running, start_time, elapsed_time,
                                         update_job, after_queue, project,
                                         work_package, backup, ledger >>
               /\ last'.op \in { "close_Speichern", "close_Verwerfen", "close_none" }
                      => app' = "down"
               /\ last'.op = "close_Verwerfen"
                      => backup' = EmptyBackup /\ ledger' = ledger ]_vars

\* The close prompt was dismissed while the timer was running with time of
\* an earlier period on it and a snapshot stored.
C23_Witness ==
    /\ last.op = "close_WM_DELETE_WINDOW"
    /\ app = "up"
    /\ running
    /\ elapsed_time > 0
    /\ backup # EmptyBackup

(***************************************************************************)
(* C24.  There is one snapshot, and a snapshot that is not empty becomes   *)
(* empty only in a step that wrote the recording to the ledger, in a       *)
(* startup where "loeschen" was chosen, or in a close where "Verwerfen"    *)
(* was pressed; in particular a record whose ledger write failed does not  *)
(* clear it.                                                               *)
(***************************************************************************)
C24_SnapshotClearedOnlyWhenFinal ==
    [][ (backup # EmptyBackup /\ backup' = EmptyBackup)
            => \/ Len(ledger') = Len(ledger) + 1
               \/ last'.op = "startup_loeschen"
               \/ last'.op = "close_Verwerfen" ]_vars

(***************************************************************************)
(* C25.  Quarter-hour rounding.  For every duration d > 0 of whole         *)
(* seconds the push books q quarter hours, where q is the smallest whole   *)
(* number with q >= 1 and q * 900 >= d (1 s and 899 s give 0.25 h, 901 s   *)
(* gives 0.5 h, 3600 s gives 1.0 h); and the pull stores for remote hours  *)
(* h the duration q * 900 seconds, where q is the smallest whole number    *)
(* with q >= 1 and q quarter hours >= h.                                   *)
(***************************************************************************)
\* q is the smallest number of units that is at least 1 and covers amount.
SmallestCover(q, unit, amount) ==
    /\ q >= 1
    /\ q * unit >= amount
    /\ (q = 1 \/ (q - 1) * unit < amount)

C25_QuarterHourRounding ==
    [][ /\ last'.op = "push"
            => /\ Len(time_entries') = 1
               /\ LET minutes == time_entries'[1].hours
                  IN  /\ minutes % 15 = 0
                      /\ SmallestCover(minutes \div 15, 900, elapsed_time)
                      /\ elapsed_time \in { 1, 899 } => minutes = 15
                      /\ elapsed_time = 901 => minutes = 30
                      /\ elapsed_time = 3600 => minutes = 60
        /\ (last'.op = "pull" /\ ledger = <<>>)
            => /\ Len(ledger') = 1
               /\ ledger'[1].duration % 900 = 0
               /\ SmallestCover(ledger'[1].duration \div 900, 15,
                                time_entries[1].hours) ]_vars

\* 901 seconds were pushed as half an hour and pulled as 1800 seconds.
C25_Witness ==
    /\ last.op = "pull"
    /\ elapsed_time = 901
    /\ time_entries[1].hours = 30
    /\ Len(ledger) = 1
    /\ ledger[1].duration = 1800

(***************************************************************************)
(* C26.  start takes effect only when the timer is not running: it sets    *)
(* the timer running, takes the time of the call as start reference,       *)
(* keeps the elapsed time and schedules one tick.  start on a running      *)
(* timer changes nothing: start reference, elapsed time and the pending    *)
(* tick are as they were, and never is a second tick pending.              *)
(***************************************************************************)
C26_StartOnlyWhenStopped ==
    [][ /\ last'.op = "start"
            => IF running
               THEN UNCHANGED << running, start_time, elapsed_time, update_job,
                                 after_queue, project, work_package, backup,
                                 ledger >>
               ELSE /\ running'
                    /\ start_time' = Time(now)
                    /\ elapsed_time' = elapsed_time
                    /\ update_job'
                    /\ after_queue' = 1
                    /\ UNCHANGED << project, work_package, backup, ledger >>
        /\ after_queue' <= 1 ]_vars

\* Start was pressed on a timer that had been started from paused, with
\* elapsed time on it, at an earlier time.
C26_Witness ==
    /\ last.op = "start"
    /\ running
    /\ elapsed_time > 0
    /\ start_time > 0
    /\ start_time < Time(now)
    /\ after_queue = 1

(***************************************************************************)
(* C27.  pause takes effect only on a running timer: it adds the time      *)
(* since the start reference to the elapsed time once, stops the timer and *)
(* cancels the pending tick.  pause on a timer that is not running changes *)
(* nothing.  A tick is pending only while the timer is running, and a tick *)
(* fires only on a running timer.                                          *)
(***************************************************************************)
C27_PauseCancelsTick ==
    [][ /\ last'.op = "pause"
            => IF running
               THEN /\ ~running'
                    /\ elapsed_time' = elapsed_time + (Time(now) - start_time)
                    /\ ~update_job'
                    /\ after_queue' = 0
                    /\ UNCHANGED << start_time, project, work_package, backup,
                                    ledger >>
               ELSE UNCHANGED << running, start_time, elapsed_time, update_job,
                                 after_queue, project, work_package, backup,
                                 ledger >>
        /\ after_queue' > 0 => running'
        /\ update_job' => running'
        /\ last'.op = "tick" => running /\ running' ]_vars

\* A second running period was paused: both periods are in the elapsed
\* time and no tick is pending.
C27_Witness ==
    /\ last.op = "pause"
    /\ ~running
    /\ start_time > 0
    /\ elapsed_time = Time(now)
    /\ after_queue = 0
    /\ ~update_job

(***************************************************************************)
(* C28.  While the manager is not connected (connect has not returned      *)
(* True in this process), every synchronisation and every refresh is       *)
(* skipped: it leaves the ledger, the ticket cache, the catalog and the    *)
(* flag REDMINE_CONFIG_UPDATED as they were.                               *)
(***************************************************************************)
C28_NotConnectedSkips ==
    [][ (connect_returned' # "true" /\ last'.op \in { "sync", "refresh" })
            => /\ ledger' = ledger
               /\ tickets' = tickets
               /\ config'.projects = config.projects
               /\ config'.work_packages = config.work_packages
               /\ config'.REDMINE_CONFIG_UPDATED = config.REDMINE_CONFIG_UPDATED
       ]_vars

(***************************************************************************)
(* C29.  When the recovery dialog of a startup is dismissed without a      *)
(* choice, the timer is idle with elapsed time 0, no ledger row is         *)
(* written and the snapshot stays as it is; and as long as the program     *)
(* runs, the snapshot of that earlier timing session, which the timer does *)
(* not hold, is left unchanged by every step, so that the next startup     *)
(* offers it again.                                                        *)
(***************************************************************************)
C29_DismissedSnapshotKept ==
    [][ /\ (last'.op = "startup_none" /\ backup.elapsed_time > 0)
            => /\ ~running'
               /\ elapsed_time' = 0
               /\ ledger' = ledger
               /\ backup' = backup
        /\ (app = "up" /\ backup.elapsed_time > 0 /\ backup_session # session)
            => backup' = backup ]_vars

(***************************************************************************)
(* C30.  Time entries are insert-only.  Every step of the program but a    *)
(* reset (records, pushes, pulls, startups with their recovery, kills)     *)
(* leaves every row of the ledger in its place with its date, project,     *)
(* work package and duration; rows disappear only in a reset_app that the  *)
(* user confirmed, and a reset_app that was declined changes nothing.      *)
(***************************************************************************)
C30_LedgerInsertOnly ==
    [][ /\ \/ /\ Len(ledger') >= Len(ledger)
              /\ SubSeq(ledger', 1, Len(ledger)) = ledger
           \/ last'.op = "reset_app" /\ last'.res = "reset"
        /\ (last'.op = "reset_app" /\ last'.res = "declined")
               => UNCHANGED << ledger, tickets, config, config_file, backup,
                               running, elapsed_time >>
        /\ (last'.op = "reset_app" /\ last'.res = "reset")
               => ledger' = <<>> /\ app' = "down" ]_vars

\* A reset was declined over a ledger that holds a recorded row and a row
\* pulled after it.
C30_Witness ==
    /\ last.op = "reset_app"
    /\ last.res = "declined"
    /\ Len(ledger) = 2
    /\ Len(time_entries) >= 1

(***************************************************************************)
(* C31.  The ticket cache is keyed by ticket_id.  No two cached rows have  *)
(* the same ticket_id.  A pull keeps every cached row in its place with    *)
(* its ticket_id, also the rows of tickets the remote tracker lists no     *)
(* more; a row whose values changed is the row of an issue listed, and     *)
(* holds the subject, project and user of that issue in this pull.         *)
(***************************************************************************)
C31_CacheKeyedByTicketId ==
    [][ /\ \A j, k \in 1..Len(tickets') :
               tickets'[j].ticket_id = tickets'[k].ticket_id => j = k
        /\ (last'.op = "tickets")
            => /\ Len(tickets') >= Len(tickets)
               /\ \A j \in 1..Len(tickets) :
                      /\ tickets'[j].ticket_id = tickets[j].ticket_id
                      /\ (tickets'[j] # tickets[j])
                          => \E i \in Assigned :
                                /\ issues[i].id = tickets[j].ticket_id
                                /\ tickets'[j].subject = issues[i].subject
                                /\ tickets'[j].project = project_name(issues[i].project_id)
                                /\ tickets'[j].user = config'.REDMINE_USER
       ]_vars

\* A pull in which nothing failed has updated the row of one ticket while the
\* cache holds the row of a ticket that is no longer assigned to the user.
C31_Witness ==
    /\ last.op = "tickets"
    /\ last.failed = {}
    /\ \E j, k \in 1..Len(tickets) :
           /\ \A i \in Assigned : issues[i].id # tickets[j].ticket_id
           /\ \E i \in Assigned : /\ issues[i].id = tickets[k].ticket_id
                                   /\ issues[i].subject = << "p" >>
                                   /\ tickets[k].subject = << "p" >>

(***************************************************************************)
(* C32.  The subject of a push is "<project> - Ticket <n>", where n is the *)
(* part of the work-package string before its first ": " (a colon and a    *)
(* space), and the whole string when it holds no ": ", also when it holds  *)
(* a colon that no space follows.                                          *)
(***************************************************************************)
\* The places of wp where a colon is followed by a space.
SeparatorAt(wp) == { i \in 1..(Len(wp) - 1) : wp[i] = ":" /\ wp[i + 1] = " " }

\* The part of wp before its first ": ", or wp.
BeforeSeparator(wp) ==
    IF SeparatorAt(wp) = {} THEN wp
    ELSE LET i == CHOOSE k \in SeparatorAt(wp) : \A m \in SeparatorAt(wp) : k <= m
         IN  SubSeq(wp, 1, i - 1)

C32_TicketNumberBeforeColonSpace ==
    [][ (last'.op = "push" /\ Len(issues') = 1 /\ issues = <<>>)
            => issues'[1].subject
                   = project \o << " - Ticket " >> \o BeforeSeparator(work_package)
      ]_vars

(***************************************************************************)
(* C33.  fetch_avg_duration_for returns 0 for a pair of project and work   *)
(* package that no row of the ledger has, whether or not the query fails,  *)
(* and never raises; for a pair that has rows it returns, when the query   *)
(* does not fail, the arithmetic mean of the durations of these rows: the  *)
(* value times their number is their sum.                                  *)
(***************************************************************************)
\* The rows of the ledger for the pair selected.
Matching == { i \in 1..Len(ledger) : /\ ledger[i].project = project
                                     /\ ledger[i].work_package = work_package }

RECURSIVE SumOver(_)
\* The sum of the durations of the rows at the places in S.
SumOver(S) ==
    IF S = {} THEN 0
    ELSE LET i == CHOOSE k \in S : TRUE
         IN  ledger[i].duration + SumOver(S \ { i })

C33_AverageOrZero ==
    (last.op = "avg")
        => /\ (Matching = {}) => last.ret = 0
           /\ (Matching # {} /\ last.failed = {})
                  => last.ret * Cardinality(Matching) = SumOver(Matching) * AvgScale

\* The mean of the two rows of the pair, which is not a whole number of
\* seconds, has been returned.
C33_Witness ==
    /\ last.op = "avg"
    /\ last.failed = {}
    /\ Cardinality(Matching) = 2
    /\ last.ret % AvgScale # 0

(***************************************************************************)
(* C34.  A push goes to the backup project of the configuration: when      *)
(* create_time_entry is called over a connection, the project it looks     *)
(* for is the REDMINE_BACKUP_PROJECT of the configuration, also after the  *)
(* backup project was chosen at the first start or changed from the menu   *)
(* in this session, and the issue it returns lies in that project.         *)
(***************************************************************************)
C34_PushTargetsConfiguredProject ==
    [][ (last'.op = "push" /\ redmine)
            => /\ backup_project = config.REDMINE_BACKUP_PROJECT
               /\ (config.REDMINE_BACKUP_PROJECT # <<>>)
                      => /\ last'.ret # NoId
                         /\ issues'[last'.ret].project_id
                                = find_backup_project_id(config.REDMINE_BACKUP_PROJECT)
      ]_vars

(***************************************************************************)
(* C35.  record pushes only what it stored: a step of record_time (from    *)
(* the button, from the recovery at startup or from the close prompt) that *)
(* submits a remote time entry has written its row to the ledger before.   *)
(***************************************************************************)
C35_PushOnlyWhatWasStored ==
    [][ (Len(time_entries') > Len(time_entries)
            /\ \E i \in 1..Len(last'.calls) : last'.calls[i] = "ledger.insert")
            => /\ "ledger.insert" \notin last'.failed
               /\ Len(ledger') = Len(ledger) + 1
      ]_vars

(***************************************************************************)
(* C36.  Shutdown with 'save' never drops the measured duration: when the  *)
(* window is destroyed after the user chose to save, the time measured is  *)
(* in a new row of the ledger, or the snapshot still holds time of this    *)
(* timing session for the next startup.                                    *)
(***************************************************************************)
\* The time on the timer: elapsed_time plus the period that is running.
Measured == IF running THEN elapsed_time + (Time(now) - start_time) ELSE elapsed_time

C36_SaveOnCloseKeepsDuration ==
    [][ (last'.op = "close_Speichern" /\ app' = "down" /\ Measured > 0)
            => \/ /\ Len(ledger') = Len(ledger) + 1
                  /\ ledger'[Len(ledger')].duration = Measured
               \/ /\ backup'.elapsed_time > 0
                  /\ backup_session' = session
      ]_vars

(***************************************************************************)
(* C37.  reset_config restores the documented defaults after any sequence  *)
(* of operations: after a reset the configuration in memory and on disk    *)
(* has the projects Projekt A and Projekt B, no work packages, no backup,  *)
(* no URL, backup project, user or credentials and a cleared refresh flag; *)
(* and no operation changes the values of DEFAULT_CONFIG themselves.       *)
(***************************************************************************)
C37_ResetRestoresDefaults ==
    [][ /\ (app' = "up")
            => /\ DefaultOf(St, "projects")' = DEFAULT_CONFIG.projects
               /\ DefaultOf(St, "work_packages")' = DEFAULT_CONFIG.work_packages
        /\ (last'.op = "reset_app" /\ last'.res = "reset")
            => /\ config_file' = DEFAULT_CONFIG
               /\ backup' = EmptyBackup
      ]_vars

(***************************************************************************)
(* C38.  The refresh flag is set only by a refresh that listed the issues  *)
(* of every remote project but the backup project: a refresh in which the  *)
(* listing of some project raised leaves REDMINE_CONFIG_UPDATED as it was, *)
(* so that a later refresh still adds that project and its tickets.        *)
(***************************************************************************)
C38_FlagOnlyAfterCompleteRefresh ==
    [][ (last'.op = "refresh" /\ "issue.filter" \in last'.failed)
            => config'.REDMINE_CONFIG_UPDATED = config.REDMINE_CONFIG_UPDATED
      ]_vars

(***************************************************************************)
(* C39.  change_redmine_url is all-or-nothing: when a prompt is cancelled  *)
(* or no connection to a URL entered is made, the REDMINE_URL of the       *)
(* configuration, in memory and on disk, and the manager with its          *)
(* connection are as before the operation.                                 *)
(***************************************************************************)
C39_ChangeUrlAllOrNothing ==
    [][ (last'.op = "change_redmine_url" /\ last'.res # "changed")
            => /\ config'.REDMINE_URL = config.REDMINE_URL
               /\ config_file'.REDMINE_URL = config_file.REDMINE_URL
               /\ redmine_url' = redmine_url
               /\ redmine' = redmine
               /\ connect_returned' = connect_returned
      ]_vars

(***************************************************************************)
(* C40.  The retry after a partial push converges.  When a push created    *)
(* the remote issue and the submission of its time entry failed, so that   *)
(* it returned None, the next push for the same project and work package   *)
(* creates no second issue when its lookup works, and when none of its     *)
(* remote calls raises it finds that issue by its subject, submits exactly *)
(* one time entry to it and returns it.                                    *)
(***************************************************************************)
\* The push before created the last of the issues and failed to submit the
\* time entry.
PartialPush ==
    /\ last.op = "push"
    /\ last.calls = << "project.all", "issue.filter", "issue.create",
                       "time_entry.create" >>
    /\ last.failed = { "time_entry.create" }
    /\ last.ret = NoId

C40_RetryConverges ==
    [][ (PartialPush /\ last'.op = "push")
            => /\ ("issue.filter" \notin last'.failed) => issues' = issues
               /\ (last'.failed = {})
                      => /\ issues[Len(issues)].subject
                                = derived_subject(project, work_package)
                         /\ last'.ret = issues[Len(issues)].id
                         /\ Len(time_entries') = Len(time_entries) + 1
                         /\ time_entries'[Len(time_entries')].issue_id = last'.ret
      ]_vars

\* The retry has booked the only time entry on the issue that the failed
\* push left without one.
C40_Witness ==
    /\ last.op = "push"
    /\ last.failed = {}
    /\ last.calls = << "project.all", "issue.filter", "time_entry.create" >>
    /\ Len(issues) = 1
    /\ Len(time_entries) = 1
    /\ time_entries[1].issue_id = issues[1].id
    /\ time_entries[1].comments = "Zusaetzlicher Zeiteintrag"

=============================================================================
